---- MODULE Spec2Model ----
(***************************************************************************)
(* SWFOC extender bridge: the named-pipe transport's command decoding, the *)
(* host's dispatch, and the economy / global-toggle / build-patch plugins  *)
(* acting on the memory of a target process.                               *)
(*                                                                         *)
(* Text.  A std::string is modelled as a sequence of lexical atoms.  An    *)
(* atom is one character, except that every identifier the program looks   *)
(* for or compares with (JSON keys, feature ids, anchor names, the tokens  *)
(* true and false, command ids) is one atom wherever its characters occur  *)
(* consecutively.  Positions are 1-based; 0 stands for std::string::npos.  *)
(***************************************************************************)
EXTENDS Integers, Sequences, FiniteSets, TLC

VARIABLES
    mem,                        \* target processes' memory: pid -> address -> byte
    restoreBytesByKey,          \* BuildPatchPlugin::restoreBytesByKey_
    unitCapPatchEnabled_,       \* BuildPatchPlugin atomics
    instantBuildPatchEnabled_,
    unitCapValue_,
    lockEnabled_,               \* EconomyPlugin atomics
    lockedCreditsValue_,
    freezeTimerEnabled_,        \* GlobalTogglePlugin atomics
    fogRevealEnabled_,
    aiEnabled_,
    firstOriginal,              \* history: per restore key, the bytes at its address before the
                                \* first capture made since the key's record was last absent
    last,                       \* history: the exchange served last
    prev,                       \* history: summary of the exchange served before it
    input,                      \* argument of a function checked on its own (<<>>: none);
                                \* in the server's life cycle, the command line read last
    output,                     \* its result (<<>>: not applied yet); in the server's life
                                \* cycle, the BridgeResult written last
    running_,                   \* NamedPipeBridgeServer::running_
    workerAt,                   \* where the thread worker_ is in runLoop
    hostAt,                     \* where the controlling thread is in RunBridgeHost
    channelUp,                  \* environment: CreateNamedPipeA can create the pipe
    openPipes,                  \* server-side pipe handles that are open
    client,                     \* who is connected to the open pipe instance
    wakeLeft,                   \* connection attempts left before stop()'s deadline
    accepted,                   \* history: connections ConnectNamedPipe has accepted
    responded,                  \* history: calls of WriteResponse
    closed,                     \* history: calls of CloseServerPipe
    workers,                    \* threads that are running runLoop
    restoreBytesMutex_,         \* BuildPatchPlugin::restoreBytesMutex_: 0, or the thread that holds it
    threadAt                    \* where each thread that calls BuildPatchPlugin::execute is,
                                \* and its locals

vars == <<mem, restoreBytesByKey, unitCapPatchEnabled_,
          instantBuildPatchEnabled_, unitCapValue_, lockEnabled_,
          lockedCreditsValue_, freezeTimerEnabled_, fogRevealEnabled_,
          aiEnabled_, firstOriginal, last, prev, input, output,
          running_, workerAt, hostAt, channelUp, openPipes, client, wakeLeft,
          accepted, responded, closed, workers, restoreBytesMutex_, threadAt>>

serverVars == <<running_, workerAt, hostAt, channelUp, openPipes, client, wakeLeft,
                accepted, responded, closed, workers>>

----------------------------------------------------------------------------
(* Generic helpers                                                         *)

Min(S) == CHOOSE x \in S : \A y \in S : x <= y

EmptyMap == [k \in {} |-> <<>>]

MapPut(m, k, v) == [x \in DOMAIN m \cup {k} |-> IF x = k THEN v ELSE m[x]]

MapRemove(m, k) == [x \in DOMAIN m \ {k} |-> m[x]]

\* std::map::emplace: keeps an existing entry
MapEmplace(m, k, v) == IF k \in DOMAIN m THEN m ELSE MapPut(m, k, v)

\* map `base` with every entry of `over` assigned into it
MapMerge(base, over) ==
    [x \in DOMAIN base \cup DOMAIN over |-> IF x \in DOMAIN over THEN over[x] ELSE base[x]]

\* the text of an atom sequence that holds one identifier ("" when empty)
RECURSIVE Text(_)
Text(s) == IF s = <<>> THEN "" ELSE Head(s) \o Text(Tail(s))

----------------------------------------------------------------------------
(* Wire codec (NamedPipeBridgeServer.cpp and BridgeHostMain.cpp hold the   *)
(* same scanners)                                                          *)

Q == "\""

WhitespaceAtoms == {" ", "\t", "\r", "\n"}

DigitAtoms == {"0", "1", "2", "3", "4", "5", "6", "7", "8", "9"}

DigitVal(a) == CASE a = "0" -> 0 [] a = "1" -> 1 [] a = "2" -> 2 [] a = "3" -> 3
                 [] a = "4" -> 4 [] a = "5" -> 5 [] a = "6" -> 6 [] a = "7" -> 7
                 [] a = "8" -> 8 [] a = "9" -> 9

\* the position n past `pos`; npos stays npos
After(pos, n) == IF pos = 0 THEN 0 ELSE pos + n

\* std::string::find(ch, from); from = 0 stands for a search that is not made
FindAtom(s, a, from) ==
    IF from = 0 \/ \A i \in from..Len(s) : s[i] # a THEN 0
    ELSE Min({i \in from..Len(s) : s[i] = a})

\* std::string::find("\"" + key + "\"")
FindQuotedKey(s, key) ==
    IF \A i \in 1..(Len(s) - 2) : ~(s[i] = Q /\ s[i + 1] = key /\ s[i + 2] = Q) THEN 0
    ELSE Min({i \in 1..(Len(s) - 2) : s[i] = Q /\ s[i + 1] = key /\ s[i + 2] = Q})

\* std::string::find_first_not_of(" \t\r\n", from)
SkipAsciiWhitespace(s, from) ==
    IF from = 0 \/ \A i \in from..Len(s) : s[i] \in WhitespaceAtoms THEN 0
    ELSE Min({i \in from..Len(s) : s[i] \notin WhitespaceAtoms})

\* substr between two positions, both exclusive; empty when `to` is npos
Between(s, from, to) == IF to = 0 THEN <<>> ELSE SubSeq(s, from + 1, to - 1)

ExtractStringValue(json, key) ==
    LET colonPos == FindAtom(json, ":", After(FindQuotedKey(json, key), 3))
        firstQuote == FindAtom(json, Q, After(colonPos, 1))
    IN Between(json, firstQuote, FindAtom(json, Q, After(firstQuote, 1)))

\* the index of the brace closing the object opened at `open` (0 when unbalanced)
RECURSIVE MatchBrace(_, _, _)
MatchBrace(json, i, depth) ==
    IF i > Len(json) THEN 0
    ELSE IF json[i] = "{" THEN MatchBrace(json, i + 1, depth + 1)
    ELSE IF json[i] = "}"
         THEN IF depth = 1 THEN i ELSE MatchBrace(json, i + 1, depth - 1)
    ELSE MatchBrace(json, i + 1, depth)

\* substr from the opening to the closing brace; "{}" when one is missing
Braced(json, openBrace, closeBrace) ==
    IF closeBrace = 0 THEN <<"{", "}">> ELSE SubSeq(json, openBrace, closeBrace)

ExtractObjectJson(json, key) ==
    LET colonPos == FindAtom(json, ":", After(FindQuotedKey(json, key), 3))
        openBrace == FindAtom(json, "{", After(colonPos, 1))
    IN Braced(json, openBrace, IF openBrace = 0 THEN 0 ELSE MatchBrace(json, openBrace, 0))

TryFindValueStart(json, key) ==
    SkipAsciiWhitespace(json,
        After(FindAtom(json, ":", After(FindQuotedKey(json, key), 3)), 1))

\* the literal at `start`: [ok, value]
BoolAt(json, start) ==
    IF start = 0 THEN [ok |-> FALSE, value |-> FALSE]
    ELSE IF json[start] = "true" THEN [ok |-> TRUE, value |-> TRUE]
    ELSE IF json[start] = "false" THEN [ok |-> TRUE, value |-> FALSE]
    ELSE [ok |-> FALSE, value |-> FALSE]

TryReadBool(json, key) == BoolAt(json, TryFindValueStart(json, key))

\* the value of the run of decimal digits that starts at i (acc so far);
\* -1 once it exceeds INT_MAX
RECURSIVE DigitRun(_, _, _)
DigitRun(s, i, acc) ==
    IF i > Len(s) \/ s[i] \notin DigitAtoms THEN acc
    ELSE IF acc = -1 \/ acc > (2147483647 - DigitVal(s[i])) \div 10 THEN DigitRun(s, i + 1, -1)
    ELSE DigitRun(s, i + 1, acc * 10 + DigitVal(s[i]))

\* std::stoi on the text from `start`: [ok, value]; it throws when there is
\* no digit or the value is out of the int range, which the callers catch
\* (a magnitude above INT_MAX counts as out of range: -2^31 itself is not
\* among the texts of the model)
Stoi(negative, hasDigits, magnitude) ==
    IF hasDigits /\ magnitude # -1
    THEN [ok |-> TRUE, value |-> IF negative THEN 0 - magnitude ELSE magnitude]
    ELSE [ok |-> FALSE, value |-> 0]

StoiAt(s, start) ==
    LET first == IF s[start] \in {"-", "+"} THEN start + 1 ELSE start
    IN Stoi(s[start] = "-", first <= Len(s) /\ s[first] \in DigitAtoms,
            DigitRun(s, first, 0))

\* the int at `start`, which may not begin with '+': [ok, value]
IntAt(json, start) ==
    IF start = 0 \/ json[start] = "+" THEN [ok |-> FALSE, value |-> 0]
    ELSE StoiAt(json, start)

TryReadInt(json, key) == IntAt(json, TryFindValueStart(json, key))

\* the first quote at or after `start` that no backslash escapes
RECURSIVE FindUnescapedQuote(_, _, _)
FindUnescapedQuote(s, i, escaped) ==
    IF i > Len(s) THEN 0
    ELSE IF escaped THEN FindUnescapedQuote(s, i + 1, FALSE)
    ELSE IF s[i] = "\\" THEN FindUnescapedQuote(s, i + 1, TRUE)
    ELSE IF s[i] = Q THEN i
    ELSE FindUnescapedQuote(s, i + 1, FALSE)

RECURSIVE TrimAsciiWhitespace(_)
TrimAsciiWhitespace(s) ==
    IF s = <<>> THEN s
    ELSE IF Head(s) \in WhitespaceAtoms THEN TrimAsciiWhitespace(Tail(s))
    ELSE IF s[Len(s)] \in WhitespaceAtoms THEN TrimAsciiWhitespace(SubSeq(s, 1, Len(s) - 1))
    ELSE s

\* the end of a bare token: the first ',' or '}' at or after i, else size()+1
TokenEnd(s, i) ==
    IF \A j \in i..Len(s) : s[j] \notin {",", "}"} THEN Len(s) + 1
    ELSE Min({j \in i..Len(s) : s[j] \in {",", "}"}})

\* [ok, key, cursor]
TryParseFlatStringMapEntryKey(objectJson, cursor) ==
    LET keyEnd == FindUnescapedQuote(objectJson, cursor + 1, FALSE)
        next == SkipAsciiWhitespace(objectJson,
                    After(FindAtom(objectJson, ":", After(keyEnd, 1)), 1))
    IN IF objectJson[cursor] # Q \/ next = 0
       THEN [ok |-> FALSE, key |-> <<>>, cursor |-> 0]
       ELSE [ok |-> TRUE, key |-> Between(objectJson, cursor, keyEnd), cursor |-> next]

\* [ok, value, cursor]
TryParseFlatStringMapEntryValue(objectJson, cursor) ==
    LET valueEnd == FindUnescapedQuote(objectJson, cursor + 1, FALSE)
        tokenEnd == TokenEnd(objectJson, cursor)
    IN IF objectJson[cursor] = Q
       THEN [ok |-> valueEnd # 0, value |-> Between(objectJson, cursor, valueEnd),
             cursor |-> After(valueEnd, 1)]
       ELSE [ok |-> TRUE, value |-> TrimAsciiWhitespace(SubSeq(objectJson, cursor, tokenEnd - 1)),
             cursor |-> tokenEnd]

\* the cursor past the comma that follows an entry, if one does
SkipComma(objectJson, cursor) ==
    IF cursor # 0 /\ objectJson[cursor] = "," THEN cursor + 1 ELSE cursor

\* a parsed key with the entry's value: [ok, key, value, cursor]
EntryOf(objectJson, key, value) ==
    [ok |-> value.ok, key |-> key.key, value |-> value.value,
     cursor |-> SkipComma(objectJson, SkipAsciiWhitespace(objectJson, value.cursor))]

EntryAfterKey(objectJson, key) ==
    IF ~key.ok THEN [ok |-> FALSE, key |-> <<>>, value |-> <<>>, cursor |-> 0]
    ELSE EntryOf(objectJson, key, TryParseFlatStringMapEntryValue(objectJson, key.cursor))

\* one "key": value entry from cursor: [ok, key, value, cursor]
TryParseFlatStringMapEntry(objectJson, cursor0) ==
    LET cursor == SkipAsciiWhitespace(objectJson, cursor0)
    IN IF cursor = 0 \/ objectJson[cursor] = "}"
       THEN [ok |-> FALSE, key |-> <<>>, value |-> <<>>, cursor |-> 0]
       ELSE EntryAfterKey(objectJson, TryParseFlatStringMapEntryKey(objectJson, cursor))

\* the loop of ParseFlatStringMapObject: ParseEntries reads the entry at
\* cursor, AfterEntry stores it and goes on
RECURSIVE ParseEntries(_, _, _)
AfterEntry(objectJson, parsed, e) ==
    IF ~e.ok THEN parsed
    ELSE ParseEntries(objectJson, e.cursor,
                      IF e.key # <<>> THEN MapPut(parsed, Text(e.key), e.value) ELSE parsed)

ParseEntries(objectJson, cursor, parsed) ==
    AfterEntry(objectJson, parsed, TryParseFlatStringMapEntry(objectJson, cursor))

ParseFlatStringMapObject(objectJson) ==
    IF FindAtom(objectJson, "{", 1) = 0 THEN EmptyMap
    ELSE ParseEntries(objectJson, FindAtom(objectJson, "{", 1) + 1, EmptyMap)

ExtractStringMap(json, key) == ParseFlatStringMapObject(ExtractObjectJson(json, key))

----------------------------------------------------------------------------
(* Process memory primitive (ProcessMutationHelpers.hpp, the _WIN32 build) *)

HexAtoms == DigitAtoms \cup {"a", "b", "c", "d", "e", "f", "A", "B", "C", "D", "E", "F"}

HexVal(a) == CASE a \in DigitAtoms -> DigitVal(a)
               [] a \in {"a", "A"} -> 10 [] a \in {"b", "B"} -> 11
               [] a \in {"c", "C"} -> 12 [] a \in {"d", "D"} -> 13
               [] a \in {"e", "E"} -> 14 [] a \in {"f", "F"} -> 15

\* std::from_chars(begin, end, parsed, 16): the digits consumed and their value
RECURSIVE HexRun(_, _, _)
HexRun(s, i, acc) ==
    IF i > Len(s) \/ s[i] \notin HexAtoms THEN [next |-> i, value |-> acc]
    ELSE HexRun(s, i + 1, acc * 16 + HexVal(s[i]))

\* a parser that accepts the leading hex digits and ignores what follows them
TryParseAddressPartial(raw) ==
    LET prefixed == Len(raw) >= 2 /\ raw[1] = "0" /\ raw[2] \in {"x", "X"}
        normalized == IF prefixed THEN SubSeq(raw, 3, Len(raw)) ELSE raw
        run == HexRun(normalized, 1, 0)
    IN IF raw = <<>> \/ normalized = <<>> THEN [ok |-> FALSE, address |-> 0]
       ELSE IF run.next = 1 THEN [ok |-> FALSE, address |-> 0]
       ELSE [ok |-> TRUE, address |-> run.value]

\* [ok, address]
TryParseAddress(raw) ==
    LET prefixed == Len(raw) >= 2 /\ raw[1] = "0" /\ raw[2] \in {"x", "X"}
        normalized == IF prefixed THEN SubSeq(raw, 3, Len(raw)) ELSE raw
        run == HexRun(normalized, 1, 0)
    IN IF raw = <<>> \/ normalized = <<>> THEN [ok |-> FALSE, address |-> 0]
       ELSE IF run.next = 1 \/ run.next # Len(normalized) + 1 THEN [ok |-> FALSE, address |-> 0]
       ELSE [ok |-> TRUE, address |-> run.value]

\* the object representation of a std::int32_t on the little-endian target
\* (two's complement: \div rounds down, % is non-negative)
Int32Bytes(v) ==
    <<v % 256, (v \div 256) % 256, (v \div 65536) % 256, (v \div 16777216) % 256>>

\* the addresses mapped in every live target process
Addrs == 26..35

\* the ids of the running target processes
LivePids == {7}

\* outcome of the operating-system calls of one request, when they are made
OsAllOk == [open |-> TRUE, read |-> TRUE, protect |-> TRUE, write |-> TRUE, restore |-> TRUE]
OsOutcomes == {OsAllOk,
               [OsAllOk EXCEPT !.open = FALSE],
               [OsAllOk EXCEPT !.read = FALSE],
               [OsAllOk EXCEPT !.protect = FALSE],
               [OsAllOk EXCEPT !.write = FALSE],
               [OsAllOk EXCEPT !.restore = FALSE]}

Range(address, length) == address..(address + length - 1)

ReadMem(m, processId, address, length) ==
    [i \in 1..length |-> m[processId][address + i - 1]]

WriteMem(m, processId, address, bytes) ==
    [m EXCEPT ![processId] =
        [a \in Addrs |-> IF a \in Range(address, Len(bytes))
                         THEN bytes[a - address + 1] ELSE m[processId][a]]]

IsInvalidReadRequest(processId, address, length) ==
    processId <= 0 \/ address = 0 \/ length = 0

IsInvalidWriteRequest(processId, address, length) ==
    processId <= 0 \/ address = 0 \/ length = 0

\* a data-write validation that forgets the address
IsInvalidDataWriteRequestPidOnly(processId, address) ==
    processId <= 0

IsInvalidDataWriteRequest(processId, address) ==
    processId <= 0 \/ address = 0

OpenProcessHandle(processId, os) == processId \in LivePids /\ os.open

\* a read that returns on a failed ReadProcessMemory without closing the handle
TryReadBytesLeakingOnFailure(m, processId, address, length, os) ==
    IF IsInvalidReadRequest(processId, address, length)
    THEN [ok |-> FALSE, bytes |-> <<>>, calls |-> <<>>]
    ELSE IF ~OpenProcessHandle(processId, os)
    THEN [ok |-> FALSE, bytes |-> <<>>, calls |-> <<"OpenProcess">>]
    ELSE IF Range(address, length) \subseteq Addrs /\ os.read
    THEN [ok |-> TRUE, bytes |-> ReadMem(m, processId, address, length),
          calls |-> <<"OpenProcess", "ReadProcessMemory", "CloseHandle">>]
    ELSE [ok |-> FALSE, bytes |-> <<>>,
          calls |-> <<"OpenProcess", "ReadProcessMemory">>]

\* [ok, bytes, calls]
TryReadBytes(m, processId, address, length, os) ==
    IF IsInvalidReadRequest(processId, address, length)
    THEN [ok |-> FALSE, bytes |-> <<>>, calls |-> <<>>]
    ELSE IF ~OpenProcessHandle(processId, os)
    THEN [ok |-> FALSE, bytes |-> <<>>, calls |-> <<"OpenProcess">>]
    ELSE IF Range(address, length) \subseteq Addrs /\ os.read
    THEN [ok |-> TRUE, bytes |-> ReadMem(m, processId, address, length),
          calls |-> <<"OpenProcess", "ReadProcessMemory", "CloseHandle">>]
    ELSE [ok |-> FALSE, bytes |-> <<>>,
          calls |-> <<"OpenProcess", "ReadProcessMemory", "CloseHandle">>]

\* a protected write that returns on a failed write without restoring the protection
TryWriteBytesPatchSafeSkippingRestore(m, processId, address, bytes, os) ==
    LET writeOk == Range(address, Len(bytes)) \subseteq Addrs /\ os.write
        restoreOk == os.restore
    IN IF IsInvalidWriteRequest(processId, address, Len(bytes))
       THEN [ok |-> FALSE, mem |-> m, wrote |-> FALSE, calls |-> <<>>, restoreProtectOk |-> "false"]
       ELSE IF ~OpenProcessHandle(processId, os)
       THEN [ok |-> FALSE, mem |-> m, wrote |-> FALSE, calls |-> <<"OpenProcess">>, restoreProtectOk |-> "false"]
       ELSE IF ~(Range(address, Len(bytes)) \subseteq Addrs /\ os.protect)
       THEN [ok |-> FALSE, mem |-> m, wrote |-> FALSE,
             calls |-> <<"OpenProcess", "VirtualProtectEx", "CloseHandle">>,
             restoreProtectOk |-> "false"]
       ELSE IF ~writeOk
       THEN [ok |-> FALSE, mem |-> m, wrote |-> FALSE,
             calls |-> <<"OpenProcess", "VirtualProtectEx", "WriteProcessMemory", "CloseHandle">>,
             restoreProtectOk |-> "false"]
       ELSE [ok |-> restoreOk, wrote |-> TRUE,
             mem |-> WriteMem(m, processId, address, bytes),
             calls |-> <<"OpenProcess", "VirtualProtectEx", "WriteProcessMemory",
                         "VirtualProtectEx", "CloseHandle">>,
             restoreProtectOk |-> IF restoreOk THEN "true" ELSE "false"]

\* a protected write that reports the outcome of the write alone
TryWriteBytesPatchSafeIgnoringRestore(m, processId, address, bytes, os) ==
    LET writeOk == Range(address, Len(bytes)) \subseteq Addrs /\ os.write
        restoreOk == os.restore
    IN IF IsInvalidWriteRequest(processId, address, Len(bytes))
       THEN [ok |-> FALSE, mem |-> m, wrote |-> FALSE, calls |-> <<>>, restoreProtectOk |-> "false"]
       ELSE IF ~OpenProcessHandle(processId, os)
       THEN [ok |-> FALSE, mem |-> m, wrote |-> FALSE, calls |-> <<"OpenProcess">>, restoreProtectOk |-> "false"]
       ELSE IF ~(Range(address, Len(bytes)) \subseteq Addrs /\ os.protect)
       THEN [ok |-> FALSE, mem |-> m, wrote |-> FALSE,
             calls |-> <<"OpenProcess", "VirtualProtectEx", "CloseHandle">>,
             restoreProtectOk |-> "false"]
       ELSE [ok |-> writeOk, wrote |-> writeOk,
             mem |-> IF writeOk THEN WriteMem(m, processId, address, bytes) ELSE m,
             calls |-> <<"OpenProcess", "VirtualProtectEx", "WriteProcessMemory",
                         "VirtualProtectEx", "CloseHandle">>,
             restoreProtectOk |-> IF restoreOk THEN "true" ELSE "false"]

\* [ok, mem, wrote, calls, restoreProtectOk]; wrote: WriteProcessMemory stored the bytes
TryWriteBytesPatchSafe(m, processId, address, bytes, os) ==
    LET writeOk == Range(address, Len(bytes)) \subseteq Addrs /\ os.write
        restoreOk == os.restore
    IN IF IsInvalidWriteRequest(processId, address, Len(bytes))
       THEN [ok |-> FALSE, mem |-> m, wrote |-> FALSE, calls |-> <<>>, restoreProtectOk |-> "false"]
       ELSE IF ~OpenProcessHandle(processId, os)
       THEN [ok |-> FALSE, mem |-> m, wrote |-> FALSE, calls |-> <<"OpenProcess">>, restoreProtectOk |-> "false"]
       ELSE IF ~(Range(address, Len(bytes)) \subseteq Addrs /\ os.protect)
       THEN [ok |-> FALSE, mem |-> m, wrote |-> FALSE,
             calls |-> <<"OpenProcess", "VirtualProtectEx", "CloseHandle">>,
             restoreProtectOk |-> "false"]
       ELSE [ok |-> writeOk /\ restoreOk, wrote |-> writeOk,
             mem |-> IF writeOk THEN WriteMem(m, processId, address, bytes) ELSE m,
             calls |-> <<"OpenProcess", "VirtualProtectEx", "WriteProcessMemory",
                         "VirtualProtectEx", "CloseHandle">>,
             restoreProtectOk |-> IF restoreOk THEN "true" ELSE "false"]

\* TryWriteValue<T> in WriteMutationMode::Data: [ok, mem, wrote, calls]
TryWriteValueData(m, processId, address, bytes, os) ==
    LET writeOk == Range(address, Len(bytes)) \subseteq Addrs /\ os.write
    IN IF IsInvalidDataWriteRequest(processId, address)
       THEN [ok |-> FALSE, mem |-> m, wrote |-> FALSE, calls |-> <<>>]
       ELSE IF ~OpenProcessHandle(processId, os)
       THEN [ok |-> FALSE, mem |-> m, wrote |-> FALSE, calls |-> <<"OpenProcess">>]
       ELSE [ok |-> writeOk, wrote |-> writeOk,
             mem |-> IF writeOk THEN WriteMem(m, processId, address, bytes) ELSE m,
             calls |-> <<"OpenProcess", "WriteProcessMemory", "CloseHandle">>]

----------------------------------------------------------------------------
(* Plugin contracts (PluginContracts.hpp).  A PluginRequest is             *)
(* [featureId, intValue, boolValue, enable, lockValue, processId, anchors];*)
(* a PluginResult is [succeeded, reasonCode, hookState, diagnostics], with *)
(* the constant-valued diagnostics only.                                   *)

PluginResult(succeeded, reasonCode, hookState, diagnostics) ==
    [succeeded |-> succeeded, reasonCode |-> reasonCode,
     hookState |-> hookState, diagnostics |-> diagnostics]

NoDiagnostics == [k \in {} |-> ""]

\* a search that takes the first candidate present, empty or not
RECURSIVE FindAnchorInAcceptingEmpty(_, _, _)
FindAnchorInAcceptingEmpty(anchors, candidates, i) ==
    IF i > Len(candidates) THEN [found |-> FALSE, key |-> "", value |-> <<>>]
    ELSE IF candidates[i] \in DOMAIN anchors
    THEN [found |-> TRUE, key |-> candidates[i], value |-> anchors[candidates[i]]]
    ELSE FindAnchorInAcceptingEmpty(anchors, candidates, i + 1)

\* FindAnchor / FindCreditsAnchor: the first candidate that is present with a
\* non-empty value: [found, key, value]
RECURSIVE FindAnchorIn(_, _, _)
FindAnchorIn(anchors, candidates, i) ==
    IF i > Len(candidates) THEN [found |-> FALSE, key |-> "", value |-> <<>>]
    ELSE IF candidates[i] \in DOMAIN anchors /\ anchors[candidates[i]] # <<>>
    THEN [found |-> TRUE, key |-> candidates[i], value |-> anchors[candidates[i]]]
    ELSE FindAnchorIn(anchors, candidates, i + 1)

CapabilityStateVerified ==
    [available |-> TRUE, state |-> "Verified", reasonCode |-> "CAPABILITY_PROBE_PASS"]

----------------------------------------------------------------------------
(* BuildPatchPlugin.cpp                                                    *)

kUnitCapAnchors == <<"unit_cap", "set_unit_cap">>
kInstantBuildAnchors == <<"instant_build_patch_injection", "instant_build_patch",
                          "instant_build", "toggle_instant_build_patch">>
kMinUnitCap == 1
kMaxUnitCap == 100000

IsBuildPatchFeature(featureId) ==
    featureId = "set_unit_cap" \/ featureId = "toggle_instant_build_patch"

BuildPatchAnchorCandidates(featureId) ==
    IF featureId = "set_unit_cap" THEN kUnitCapAnchors ELSE kInstantBuildAnchors

BuildPatchFindAnchor(request) ==
    FindAnchorIn(request.anchors, BuildPatchAnchorCandidates(request.featureId), 1)

IsUnitCapOutOfBoundsOffByOne(request, enablePatch) ==
    enablePatch /\ (request.intValue < kMinUnitCap - 1 \/ request.intValue > kMaxUnitCap + 1)

IsUnitCapOutOfBounds(request, enablePatch) ==
    enablePatch /\ (request.intValue < kMinUnitCap \/ request.intValue > kMaxUnitCap)

EnablePatchEnableOnly(request) == request.enable

\* const bool enablePatch = request.enable || request.boolValue
EnablePatch(request) == request.enable \/ request.boolValue

Clamp(v, lo, hi) == IF v < lo THEN lo ELSE IF v > hi THEN hi ELSE v

BuildPatchUnsupportedFeatureResult ==
    PluginResult(FALSE, "CAPABILITY_REQUIRED_MISSING", "DENIED", NoDiagnostics)

BuildPatchMissingProcessResult ==
    PluginResult(FALSE, "CAPABILITY_REQUIRED_MISSING", "DENIED",
                 "requiredField" :> "processId")

BuildInvalidUnitCapResult ==
    PluginResult(FALSE, "SAFETY_MUTATION_BLOCKED", "DENIED", NoDiagnostics)

BuildPatchMissingAnchorResult ==
    PluginResult(FALSE, "CAPABILITY_REQUIRED_MISSING", "DENIED",
                 "requiredField" :> "anchors")

BuildPatchRestoreStateMissingResult ==
    PluginResult(FALSE, "PATCH_RESTORE_STATE_MISSING", "DENIED",
                 "processMutationApplied" :> "false" @@ "operation" :> "restore_missing")

BuildPatchInvalidAnchorResult ==
    PluginResult(FALSE, "SAFETY_MUTATION_BLOCKED", "DENIED",
                 "processMutationApplied" :> "false")

BuildPatchWriteFailureResult(restoreProtectOk) ==
    PluginResult(FALSE, "SAFETY_MUTATION_BLOCKED", "DENIED",
                 "processMutationApplied" :> "false" @@ "writeMode" :> "patch"
                 @@ "restoreProtectOk" :> restoreProtectOk)

BuildPatchMutationSuccessResult(reasonCode, operation, restoreProtectOk) ==
    PluginResult(TRUE, reasonCode, "HOOK_ONESHOT",
                 "processMutationApplied" :> "true" @@ "operation" :> operation
                 @@ "writeMode" :> "patch" @@ "restoreProtectOk" :> restoreProtectOk)

BuildPatchReadFailureResult(operation) ==
    PluginResult(FALSE, "SAFETY_MUTATION_BLOCKED", "DENIED",
                 "processMutationApplied" :> "false" @@ "operation" :> operation)

\* the plugin's members: [restore, unitCapPatchEnabled, unitCapValue, instantBuildPatchEnabled]
ApplyUnitCapState(bp, enablePatch, unitCapValue) ==
    [bp EXCEPT !.unitCapPatchEnabled = enablePatch,
               !.unitCapValue = IF enablePatch THEN unitCapValue ELSE @]

ApplyInstantBuildState(bp, enablePatch) ==
    [bp EXCEPT !.instantBuildPatchEnabled = enablePatch]

\* processId|featureId|anchorKey|address
BuildRestoreKeyWithoutAnchor(request, anchorKey, address) ==
    <<request.processId, request.featureId, "", address>>

BuildRestoreKey(request, anchorKey, address) ==
    <<request.processId, request.featureId, anchorKey, address>>

TryReadRestoreBytesInvented(table, key) ==
    [ok |-> TRUE, bytes |-> IF key \in DOMAIN table THEN table[key] ELSE <<0>>]

TryReadRestoreBytes(table, key) ==
    IF key \in DOMAIN table THEN [ok |-> TRUE, bytes |-> table[key]]
    ELSE [ok |-> FALSE, bytes |-> <<>>]

StoreRestoreBytesDropped(table, key, bytes) == table

StoreRestoreBytes(table, key, bytes) == MapPut(table, key, bytes)

RemoveRestoreBytesKept(table, key) == table

RemoveRestoreBytes(table, key) == MapRemove(table, key)

WriteLengthOneByte(featureId) == 1

\* sizeof(std::int32_t) for set_unit_cap, sizeof(std::uint8_t) for the toggle
WriteLength(featureId) == IF featureId = "set_unit_cap" THEN 4 ELSE 1

\* what one execute() did: the Result, the target memory and the plugin's
\* members afterwards, the operating-system calls made, the writes that
\* reached target memory, and (build patch) the operation and its restore key
Outcome(result, m, members, calls, writes, op, key) ==
    [result |-> result, mem |-> m, members |-> members, calls |-> calls,
     writes |-> writes, op |-> op, key |-> key]

\* the writes of one primitive call that reached target memory
WritesOf(write, processId, address, bytes) ==
    IF write.wrote
    THEN <<[processId |-> processId, address |-> address, bytes |-> bytes]>>
    ELSE <<>>

\* BuildPatchPlugin::execute from the restore key on, when the patch is disabled
BuildPatchDisable(request, m, bp, os, restoreKey, targetAddress) ==
    LET restore == TryReadRestoreBytes(bp.restore, restoreKey)
        write == TryWriteBytesPatchSafe(m, request.processId, targetAddress, restore.bytes, os)
        writes == WritesOf(write, request.processId, targetAddress, restore.bytes)
        removed == [bp EXCEPT !.restore = RemoveRestoreBytes(bp.restore, restoreKey)]
        applied == IF request.featureId = "set_unit_cap"
                   THEN ApplyUnitCapState(removed, FALSE, request.intValue)
                   ELSE ApplyInstantBuildState(removed, FALSE)
    IN IF ~restore.ok
       THEN Outcome(BuildPatchRestoreStateMissingResult, m, bp, <<>>, <<>>, "disable", restoreKey)
       ELSE IF ~write.ok
       THEN Outcome(BuildPatchWriteFailureResult(write.restoreProtectOk), write.mem, bp,
                    write.calls, writes, "disable", restoreKey)
       ELSE Outcome(BuildPatchMutationSuccessResult("PATCH_RESTORE_APPLIED", "restore",
                                                    write.restoreProtectOk),
                    write.mem, applied, write.calls, writes, "disable", restoreKey)

\* BuildPatchPlugin::execute from the restore key on, when the patch is enabled
BuildPatchEnable(request, m, bp, os, restoreKey, targetAddress) ==
    LET read == TryReadBytes(m, request.processId, targetAddress,
                             WriteLength(request.featureId), os)
        stored == [bp EXCEPT !.restore = StoreRestoreBytes(bp.restore, restoreKey, read.bytes)]
        clamped == Clamp(request.intValue, kMinUnitCap, kMaxUnitCap)
        bytes == IF request.featureId = "set_unit_cap" THEN Int32Bytes(clamped) ELSE <<1>>
        write == TryWriteBytesPatchSafe(m, request.processId, targetAddress, bytes, os)
        writes == WritesOf(write, request.processId, targetAddress, bytes)
        applied == IF request.featureId = "set_unit_cap"
                   THEN ApplyUnitCapState(stored, TRUE, request.intValue)
                   ELSE ApplyInstantBuildState(stored, TRUE)
    IN IF ~read.ok
       THEN Outcome(BuildPatchReadFailureResult("capture_original"), m, bp, read.calls,
                    <<>>, "enable", restoreKey)
       ELSE IF ~write.ok
       THEN Outcome(BuildPatchWriteFailureResult(write.restoreProtectOk), write.mem, stored,
                    read.calls \o write.calls, writes, "enable", restoreKey)
       ELSE Outcome(BuildPatchMutationSuccessResult("CAPABILITY_PROBE_PASS", "apply",
                                                    write.restoreProtectOk),
                    write.mem, applied, read.calls \o write.calls, writes, "enable", restoreKey)

NoKey == <<>>

BuildPatchExecute(request, m, bp, os) ==
    LET resolvedAnchor == BuildPatchFindAnchor(request)
        enablePatch == EnablePatch(request)
        parsed == TryParseAddress(resolvedAnchor.value)
        restoreKey == BuildRestoreKey(request, resolvedAnchor.key, parsed.address)
    IN IF ~IsBuildPatchFeature(request.featureId)
       THEN Outcome(BuildPatchUnsupportedFeatureResult, m, bp, <<>>, <<>>, "", NoKey)
       ELSE IF request.processId <= 0
       THEN Outcome(BuildPatchMissingProcessResult, m, bp, <<>>, <<>>, "", NoKey)
       ELSE IF request.featureId = "set_unit_cap" /\ IsUnitCapOutOfBounds(request, enablePatch)
       THEN Outcome(BuildInvalidUnitCapResult, m, bp, <<>>, <<>>, "", NoKey)
       ELSE IF ~resolvedAnchor.found
       THEN Outcome(BuildPatchMissingAnchorResult, m, bp, <<>>, <<>>, "", NoKey)
       ELSE IF ~parsed.ok
       THEN Outcome(BuildPatchInvalidAnchorResult, m, bp, <<>>, <<>>, "", NoKey)
       ELSE IF ~enablePatch
       THEN BuildPatchDisable(request, m, bp, os, restoreKey, parsed.address)
       ELSE BuildPatchEnable(request, m, bp, os, restoreKey, parsed.address)

BuildPatchCapabilitySnapshot ==
    "set_unit_cap" :> CapabilityStateVerified
    @@ "toggle_instant_build_patch" :> CapabilityStateVerified

----------------------------------------------------------------------------
(* EconomyPlugin.cpp: members [lockEnabled, lockedCreditsValue]            *)

kCreditsAnchors == <<"credits", "set_credits">>

FindCreditsAnchor(request) == FindAnchorIn(request.anchors, kCreditsAnchors, 1)

EconomyUnsupportedFeatureResult ==
    PluginResult(FALSE, "CAPABILITY_REQUIRED_MISSING", "DENIED", NoDiagnostics)

EconomyNegativeValueResult ==
    PluginResult(FALSE, "SAFETY_MUTATION_BLOCKED", "DENIED", NoDiagnostics)

EconomyMissingAnchorResult ==
    PluginResult(FALSE, "CAPABILITY_REQUIRED_MISSING", "DENIED",
                 "requiredField" :> "anchors")

EconomyInvalidAnchorResult ==
    PluginResult(FALSE, "SAFETY_MUTATION_BLOCKED", "DENIED", NoDiagnostics)

EconomyWriteFailureResult ==
    PluginResult(FALSE, "SAFETY_MUTATION_BLOCKED", "DENIED",
                 "processMutationApplied" :> "false")

EconomyMutationSuccessResult(request) ==
    PluginResult(TRUE, "CAPABILITY_PROBE_PASS",
                 IF request.lockValue THEN "HOOK_LOCK" ELSE "HOOK_ONESHOT",
                 "processMutationApplied" :> "true"
                 @@ "lockValue" :> (IF request.lockValue THEN "true" ELSE "false"))

IsNegativeCreditsBelowMinusOne(request) == request.intValue < -1

IsNegativeCredits(request) == request.intValue < 0

EconomyExecute(request, m, eco, os) ==
    LET resolvedAnchor == FindCreditsAnchor(request)
        parsed == TryParseAddress(resolvedAnchor.value)
        bytes == Int32Bytes(request.intValue)
        write == TryWriteValueData(m, request.processId, parsed.address, bytes, os)
        writes == WritesOf(write, request.processId, parsed.address, bytes)
    IN IF request.featureId # "set_credits"
       THEN Outcome(EconomyUnsupportedFeatureResult, m, eco, <<>>, <<>>, "", NoKey)
       ELSE IF IsNegativeCredits(request)
       THEN Outcome(EconomyNegativeValueResult, m, eco, <<>>, <<>>, "", NoKey)
       ELSE IF ~resolvedAnchor.found
       THEN Outcome(EconomyMissingAnchorResult, m, eco, <<>>, <<>>, "", NoKey)
       ELSE IF ~parsed.ok
       THEN Outcome(EconomyInvalidAnchorResult, m, eco, <<>>, <<>>, "", NoKey)
       ELSE IF ~write.ok
       THEN Outcome(EconomyWriteFailureResult, write.mem, eco, write.calls, writes, "", NoKey)
       ELSE Outcome(EconomyMutationSuccessResult(request), write.mem,
                    [lockEnabled |-> request.lockValue,
                     lockedCreditsValue |-> request.intValue],
                    write.calls, writes, "", NoKey)

EconomyCapabilitySnapshot == "set_credits" :> CapabilityStateVerified

----------------------------------------------------------------------------
(* GlobalTogglePlugin.cpp: members [freezeTimerEnabled, fogRevealEnabled,  *)
(* aiEnabled]                                                              *)

kFreezeTimerAnchors == <<"game_timer_freeze", "freeze_timer">>
kFogRevealAnchors == <<"fog_reveal", "toggle_fog_reveal">>
kAiAnchors == <<"ai_enabled", "toggle_ai">>

IsGlobalToggleFeature(featureId) ==
    featureId = "freeze_timer" \/ featureId = "toggle_fog_reveal" \/ featureId = "toggle_ai"

GlobalToggleAnchorCandidates(featureId) ==
    IF featureId = "freeze_timer" THEN kFreezeTimerAnchors
    ELSE IF featureId = "toggle_fog_reveal" THEN kFogRevealAnchors
    ELSE kAiAnchors

GlobalToggleFindAnchor(request) ==
    FindAnchorIn(request.anchors, GlobalToggleAnchorCandidates(request.featureId), 1)

GlobalToggleUnsupportedFeatureResult ==
    PluginResult(FALSE, "CAPABILITY_REQUIRED_MISSING", "DENIED", NoDiagnostics)

GlobalToggleMissingProcessResult ==
    PluginResult(FALSE, "CAPABILITY_REQUIRED_MISSING", "DENIED",
                 "requiredField" :> "processId")

GlobalToggleMissingAnchorResult ==
    PluginResult(FALSE, "CAPABILITY_REQUIRED_MISSING", "DENIED",
                 "requiredField" :> "anchors")

GlobalToggleInvalidAnchorResult ==
    PluginResult(FALSE, "SAFETY_MUTATION_BLOCKED", "DENIED",
                 "processMutationApplied" :> "false")

GlobalToggleWriteFailureResult ==
    PluginResult(FALSE, "SAFETY_MUTATION_BLOCKED", "DENIED",
                 "processMutationApplied" :> "false")

GlobalToggleMutationSuccessResult ==
    PluginResult(TRUE, "CAPABILITY_PROBE_PASS", "HOOK_ONESHOT",
                 "processMutationApplied" :> "true")

GlobalToggleExecute(request, m, gt, os) ==
    LET resolvedAnchor == GlobalToggleFindAnchor(request)
        nextValue == request.boolValue
        flagged == IF request.featureId = "freeze_timer"
                   THEN [gt EXCEPT !.freezeTimerEnabled = nextValue]
                   ELSE IF request.featureId = "toggle_fog_reveal"
                   THEN [gt EXCEPT !.fogRevealEnabled = nextValue]
                   ELSE [gt EXCEPT !.aiEnabled = nextValue]
        parsed == TryParseAddress(resolvedAnchor.value)
        bytes == <<IF nextValue THEN 1 ELSE 0>>
        write == TryWriteValueData(m, request.processId, parsed.address, bytes, os)
        writes == WritesOf(write, request.processId, parsed.address, bytes)
    IN IF ~IsGlobalToggleFeature(request.featureId)
       THEN Outcome(GlobalToggleUnsupportedFeatureResult, m, gt, <<>>, <<>>, "", NoKey)
       ELSE IF request.processId <= 0
       THEN Outcome(GlobalToggleMissingProcessResult, m, gt, <<>>, <<>>, "", NoKey)
       ELSE IF ~resolvedAnchor.found
       THEN Outcome(GlobalToggleMissingAnchorResult, m, gt, <<>>, <<>>, "", NoKey)
       ELSE IF ~parsed.ok
       THEN Outcome(GlobalToggleInvalidAnchorResult, m, flagged, <<>>, <<>>, "", NoKey)
       ELSE IF ~write.ok
       THEN Outcome(GlobalToggleWriteFailureResult, write.mem, flagged, write.calls,
                    writes, "", NoKey)
       ELSE Outcome(GlobalToggleMutationSuccessResult, write.mem, flagged, write.calls,
                    writes, "", NoKey)

GlobalToggleCapabilitySnapshot ==
    "freeze_timer" :> CapabilityStateVerified
    @@ "toggle_fog_reveal" :> CapabilityStateVerified
    @@ "toggle_ai" :> CapabilityStateVerified

----------------------------------------------------------------------------
(* BridgeHostMain.cpp: the dispatch layer.  A BridgeCommand is             *)
(* [commandId, featureId, payloadJson, processId, resolvedAnchors]; a      *)
(* BridgeResult is [commandId, succeeded, reasonCode, backend, hookState,  *)
(* diagnostics, capabilities], capabilities being the entries that         *)
(* CapabilitySnapshotToJson writes, in the order it writes them.           *)

kBackendName == "extender"

kSupportedFeatures == <<"freeze_timer", "toggle_fog_reveal", "toggle_ai",
                        "set_unit_cap", "toggle_instant_build_patch", "set_credits">>

\* the order in which std::map<std::string, ...> iterates over the feature ids
\* that occur in the model
FeatureIdOrder == <<"freeze_timer", "set_credits", "set_unit_cap", "spawn_unit_helper",
                    "toggle_ai", "toggle_fog_reveal", "toggle_instant_build_patch">>

BridgeResult(commandId, succeeded, reasonCode, hookState, diagnostics, capabilities) ==
    [commandId |-> commandId, succeeded |-> succeeded, reasonCode |-> reasonCode,
     backend |-> kBackendName, hookState |-> hookState, diagnostics |-> diagnostics,
     capabilities |-> capabilities]

ResolveLockCredits(payloadJson) ==
    LET lockCredits == TryReadBool(payloadJson, "lockCredits")
        legacyForce == TryReadBool(payloadJson, "forcePatchHook")
    IN IF lockCredits.ok THEN lockCredits.value
       ELSE legacyForce.ok /\ legacyForce.value

ResolveProcessId(command) ==
    LET payloadProcessId == TryReadInt(command.payloadJson, "processId")
    IN IF command.processId > 0 THEN command.processId
       ELSE IF payloadProcessId.ok /\ payloadProcessId.value > 0 THEN payloadProcessId.value
       ELSE 0

\* anchors.emplace(legacySymbol, legacySymbol) when the symbol is not empty
WithLegacySymbol(anchors, legacySymbol) ==
    IF legacySymbol # <<>> THEN MapEmplace(anchors, Text(legacySymbol), legacySymbol)
    ELSE anchors

ResolveAnchors(command) ==
    WithLegacySymbol(MapMerge(command.resolvedAnchors,
                              ExtractStringMap(command.payloadJson, "anchors")),
                     ExtractStringValue(command.payloadJson, "symbol"))

BuildPluginRequest(command) ==
    LET intValue == TryReadInt(command.payloadJson, "intValue")
        boolValue == TryReadBool(command.payloadJson, "boolValue")
        enable == TryReadBool(command.payloadJson, "enable")
    IN [featureId |-> command.featureId,
        processId |-> ResolveProcessId(command),
        anchors |-> ResolveAnchors(command),
        lockValue |-> ResolveLockCredits(command.payloadJson),
        intValue |-> IF intValue.ok THEN intValue.value ELSE 0,
        boolValue |-> boolValue.ok /\ boolValue.value,
        enable |-> enable.ok /\ enable.value]

IsSupportedFeatureAny(featureId) == TRUE

IsSupportedFeature(featureId) ==
    \E i \in DOMAIN kSupportedFeatures : kSupportedFeatures[i] = featureId

EnsureCapabilityEntriesOverwriting(snapshot) ==
    [f \in DOMAIN snapshot \cup {kSupportedFeatures[i] : i \in DOMAIN kSupportedFeatures} |->
        IF IsSupportedFeature(f)
        THEN [available |-> FALSE, state |-> "Unknown",
              reasonCode |-> "CAPABILITY_REQUIRED_MISSING"]
        ELSE snapshot[f]]

EnsureCapabilityEntries(snapshot) ==
    [f \in DOMAIN snapshot \cup {kSupportedFeatures[i] : i \in DOMAIN kSupportedFeatures} |->
        IF f \in DOMAIN snapshot THEN snapshot[f]
        ELSE [available |-> FALSE, state |-> "Unknown",
              reasonCode |-> "CAPABILITY_REQUIRED_MISSING"]]

MergeCapabilitySnapshots(economySnapshot, globalSnapshot, patchSnapshot) ==
    EnsureCapabilityEntries(
        MapMerge(MapMerge(MapMerge(EmptyMap, economySnapshot), globalSnapshot),
                  patchSnapshot))

\* one entry per key of the map, in key order
RECURSIVE SnapshotEntries(_, _)
SnapshotEntries(snapshot, i) ==
    IF i > Len(FeatureIdOrder) THEN <<>>
    ELSE (IF FeatureIdOrder[i] \in DOMAIN snapshot
          THEN <<[featureId |-> FeatureIdOrder[i],
                  available |-> snapshot[FeatureIdOrder[i]].available,
                  state |-> snapshot[FeatureIdOrder[i]].state,
                  reasonCode |-> snapshot[FeatureIdOrder[i]].reasonCode]>>
          ELSE <<>>) \o SnapshotEntries(snapshot, i + 1)

CapabilitySnapshotToJson(snapshot) == SnapshotEntries(snapshot, 1)

ResolveProbeHookState(snapshot) ==
    IF \E f \in DOMAIN snapshot : snapshot[f].available
    THEN "HOOK_READY" ELSE "HOOK_NOT_INSTALLED"

BuildHealthResultNeedsProcess(command) ==
    BridgeResult(command.commandId, command.processId > 0, "CAPABILITY_PROBE_PASS", "RUNNING",
                 "bridge" :> "active", <<>>)

BuildHealthResult(command) ==
    BridgeResult(command.commandId, TRUE, "CAPABILITY_PROBE_PASS", "RUNNING",
                 "bridge" :> "active", <<>>)

\* the three snapshots are the plugins' capabilitySnapshot() values
BuildCapabilityProbeResult(command, economySnapshot, globalSnapshot, patchSnapshot) ==
    BridgeResult(command.commandId, TRUE, "CAPABILITY_PROBE_PASS",
                 ResolveProbeHookState(
                     MergeCapabilitySnapshots(economySnapshot, globalSnapshot, patchSnapshot)),
                 "bridge" :> "active",
                 CapabilitySnapshotToJson(
                     MergeCapabilitySnapshots(economySnapshot, globalSnapshot, patchSnapshot)))

BuildMissingIntValueResult(command) ==
    BridgeResult(command.commandId, FALSE, "CAPABILITY_REQUIRED_MISSING", "DENIED",
                 "requiredField" :> "intValue", <<>>)

\* a result that echoes the feature id where the command id belongs
BuildBridgeResultFromPluginEchoingFeature(command, pluginRequest, pluginResult) ==
    BridgeResult(command.featureId, pluginResult.succeeded, pluginResult.reasonCode,
                 pluginResult.hookState, pluginResult.diagnostics, <<>>)

BuildBridgeResultFromPlugin(command, pluginRequest, pluginResult) ==
    LET withFeature == MapPut(pluginResult.diagnostics, "featureId", command.featureId)
        withProcess == IF pluginRequest.processId > 0
                       THEN MapPut(withFeature, "processId", ToString(pluginRequest.processId))
                       ELSE withFeature
        diagnostics == MapPut(withProcess, "anchorCount",
                              ToString(Cardinality(DOMAIN pluginRequest.anchors)))
    IN BridgeResult(command.commandId, pluginResult.succeeded, pluginResult.reasonCode,
                    pluginResult.hookState, diagnostics, <<>>)

BuildUnsupportedFeatureResult(command) ==
    BridgeResult(command.commandId, FALSE, "CAPABILITY_REQUIRED_MISSING", "DENIED",
                 "featureId" :> command.featureId, <<>>)

\* which branch of HandleBridgeCommand serves the command
HandlerRoute(command) ==
    IF command.featureId = "health" THEN "health"
    ELSE IF command.featureId = "probe_capabilities" THEN "probe"
    ELSE IF ~IsSupportedFeature(command.featureId) THEN "unsupported"
    ELSE IF command.featureId = "set_credits" THEN "economy"
    ELSE IF command.featureId \in {"freeze_timer", "toggle_fog_reveal", "toggle_ai"}
    THEN "global_toggle"
    ELSE "build_patch"

----------------------------------------------------------------------------
(* NamedPipeBridgeServer.cpp: decoding one command line                    *)

\* the BridgeCommand that handleRawCommand extracts from the line
ParseCommand(jsonLine) ==
    LET processId == TryReadInt(jsonLine, "processId")
    IN [commandId |-> Text(ExtractStringValue(jsonLine, "commandId")),
        featureId |-> Text(ExtractStringValue(jsonLine, "featureId")),
        payloadJson |-> ExtractObjectJson(jsonLine, "payload"),
        resolvedAnchors |-> ExtractStringMap(jsonLine, "resolvedAnchors"),
        processId |-> IF processId.ok THEN processId.value ELSE 0]

IsMissingCommandIdAndFeatureId(command) == command.commandId = "" /\ command.featureId = ""

\* command.commandId.empty()
IsMissingCommandId(command) == command.commandId = ""

InvalidCommandResult ==
    [commandId |-> "", succeeded |-> FALSE, reasonCode |-> "CAPABILITY_BACKEND_UNAVAILABLE",
     backend |-> "extender", hookState |-> "invalid_command",
     diagnostics |-> "parseError" :> "missing_commandId", capabilities |-> <<>>]

\* what handleRawCommand does to the handler's result before returning it
FinishResult(command, result) ==
    [result EXCEPT !.commandId = IF @ = "" THEN command.commandId ELSE @,
                   !.backend = IF @ = "" THEN "extender" ELSE @]

----------------------------------------------------------------------------
(* The command lines a client sends                                        *)

Str(a) == <<Q, a, Q>>

\* std::to_string(n) as atoms
RECURSIVE Decimal(_)
Decimal(n) ==
    IF n < 0 THEN <<"-">> \o Decimal(0 - n)
    ELSE IF n < 10 THEN <<ToString(n)>>
    ELSE Decimal(n \div 10) \o <<ToString(n % 10)>>

Member(key, value) == Str(key) \o <<":">> \o value

RECURSIVE JoinMembers(_)
JoinMembers(members) ==
    IF members = <<>> THEN <<>>
    ELSE IF Len(members) = 1 THEN members[1]
    ELSE members[1] \o <<",">> \o JoinMembers(Tail(members))

Object(members) == <<"{">> \o JoinMembers(members) \o <<"}">>

\* address texts: 0x1A = 26 (unit cap, 4 bytes), 0x1E = 30 (instant build byte),
\* 0x1F = 31 (credits, 4 bytes), 0x23 = 35 (timer freeze byte)
UnitCapAddressText == <<"0", "x", "1", "A">>
InstantBuildAddressText == <<"0", "x", "1", "E">>
CreditsAddressText == <<"0", "x", "1", "F">>
FreezeTimerAddressText == <<"0", "x", "2", "3">>
BadAddressText == <<"0", "x", "1", "G">>

CommandLine(commandId, featureId, processId, anchors, payload) ==
    Object(commandId \o <<Member("featureId", Str(featureId))>>
           \o processId
           \o <<Member("resolvedAnchors", Object(anchors)),
                Member("payload", Object(payload))>>)

CommandIdC1 == <<Member("commandId", Str("c1"))>>

NoPid == <<>>
Pid0 == <<Member("processId", <<"0">>)>>
Pid7 == <<Member("processId", <<"7">>)>>

Anchor(name, text) == <<Member(name, <<Q>> \o text \o <<Q>>)>>

EnableUnitCap(v) == <<Member("enable", <<"true">>), Member("intValue", Decimal(v))>>
DisablePatch == <<Member("enable", <<"false">>), Member("boolValue", <<"false">>)>>

\* unit-cap values a client asks for: the two bounds and their outer neighbours
UnitCapValues == {0, 1, 100000, 100001}

UnitCapLines ==
    {CommandLine(CommandIdC1, "set_unit_cap", Pid7, Anchor("unit_cap", UnitCapAddressText),
                 payload) : payload \in {EnableUnitCap(v) : v \in UnitCapValues} \cup {DisablePatch}}
    \cup {CommandLine(CommandIdC1, "set_unit_cap", Pid7, anchors, payload) :
             anchors \in {<<>>, Anchor("unit_cap", BadAddressText)},
             payload \in {EnableUnitCap(1), EnableUnitCap(0), DisablePatch}}
    \cup {CommandLine(CommandIdC1, "set_unit_cap", pid, Anchor("unit_cap", UnitCapAddressText),
                      payload) : pid \in {NoPid, Pid0},
                                 payload \in {EnableUnitCap(1), EnableUnitCap(0)}}

InstantBuildLines ==
    {CommandLine(CommandIdC1, "toggle_instant_build_patch", Pid7,
                 Anchor("instant_build", InstantBuildAddressText), payload) :
        payload \in {<<Member("enable", <<"true">>)>>, DisablePatch}}
    \cup {CommandLine(CommandIdC1, "toggle_instant_build_patch", Pid7, <<>>,
                      <<Member("enable", <<"true">>)>>)}

CreditsLines ==
    {CommandLine(CommandIdC1, "set_credits", Pid7, anchors, payload) :
        anchors \in {<<>>, Anchor("credits", CreditsAddressText)},
        payload \in {<<Member("intValue", Decimal(-1))>>,
                     <<Member("intValue", Decimal(1000)), Member("lockCredits", <<"true">>)>>}}
    \cup {CommandLine(CommandIdC1, "set_credits", Pid0, Anchor("credits", CreditsAddressText),
                      payload) :
             payload \in {<<Member("intValue", Decimal(-1))>>,
                          <<Member("intValue", Decimal(1000))>>}}
    \cup {CommandLine(CommandIdC1, "set_credits", Pid7, Anchor("credits", BadAddressText),
                      <<Member("intValue", Decimal(1000))>>),
          CommandLine(CommandIdC1, "set_credits", Pid7, Anchor("credits", CreditsAddressText),
                      <<>>)}

GlobalToggleLines ==
    {CommandLine(CommandIdC1, "freeze_timer", Pid7,
                 Anchor("game_timer_freeze", FreezeTimerAddressText), payload) :
        payload \in {<<Member("boolValue", <<"true">>)>>, <<Member("boolValue", <<"false">>)>>}}
    \cup {CommandLine(CommandIdC1, "freeze_timer", Pid7, anchors,
                      <<Member("boolValue", <<"true">>)>>) :
             anchors \in {<<>>, Anchor("game_timer_freeze", BadAddressText)}}

HostLines ==
    {CommandLine(CommandIdC1, featureId, NoPid, <<>>, <<>>) :
        featureId \in {"health", "probe_capabilities", "spawn_unit_helper", "bogus"}}
    \cup {CommandLine(CommandIdC1, featureId, Pid7,
                      Anchor("unit_cap", UnitCapAddressText)
                      \o Anchor("instant_build", InstantBuildAddressText), <<>>) :
             featureId \in {"health", "probe_capabilities"}}
    \cup {CommandLine(CommandIdC1, "probe_capabilities", Pid7,
                      Anchor("unit_cap", BadAddressText), <<>>)}

\* lines from which no commandId can be extracted: an empty read, text that is
\* no object, a key with no string value, a missing key and an empty string
\* (each with every kind of featureId)
NoCommandIdLines ==
    {<<>>, <<"bogus">>, <<"{", Q, "commandId", Q, ":", "7", "}">>}
    \cup {CommandLine(commandId, featureId, Pid7, Anchor("unit_cap", UnitCapAddressText),
                      EnableUnitCap(1)) :
             commandId \in {<<>>, <<Member("commandId", <<Q, Q>>)>>},
             featureId \in {"health", "probe_capabilities", "set_unit_cap", "set_credits",
                            "freeze_timer", "bogus"}}

Lines == UnitCapLines \cup InstantBuildLines \cup CreditsLines \cup GlobalToggleLines
         \cup HostLines \cup NoCommandIdLines

\* the commands that handleRawCommand decodes from those lines, and the plugin
\* request the host builds from each
Commands == {ParseCommand(line) : line \in Lines}

\* build-patch requests that differ in one part of the restore key (process
\* id, feature, anchor name, address, address text) and in how they say
\* enable or disable
Pid9 == <<Member("processId", <<"9">>)>>
UnitCapAddressTextPlain == <<"1", "A">>
BoolValueOnly(v) == <<Member("boolValue", <<"true">>), Member("intValue", Decimal(v))>>
EnableFalseBoolValueTrue(v) ==
    <<Member("enable", <<"false">>), Member("boolValue", <<"true">>),
      Member("intValue", Decimal(v))>>
NeitherFlag == <<>>
NeitherFlagWithValue(v) == <<Member("intValue", Decimal(v))>>

PatchLines ==
    {CommandLine(CommandIdC1, "set_unit_cap", Pid7, Anchor("unit_cap", UnitCapAddressText),
                 payload) :
        payload \in {EnableUnitCap(5), BoolValueOnly(5), EnableFalseBoolValueTrue(5),
                     BoolValueOnly(0), NeitherFlag, NeitherFlagWithValue(100001),
                     DisablePatch}}
    \cup {CommandLine(CommandIdC1, "set_unit_cap", pid, Anchor(name, text), payload) :
             <<pid, name, text>> \in {<<Pid7, "unit_cap", UnitCapAddressTextPlain>>,
                                      <<Pid7, "set_unit_cap", UnitCapAddressText>>,
                                      <<Pid7, "unit_cap", CreditsAddressText>>,
                                      <<Pid9, "unit_cap", UnitCapAddressText>>},
             payload \in {EnableUnitCap(5), DisablePatch}}
    \cup {CommandLine(CommandIdC1, "toggle_instant_build_patch", Pid7,
                      Anchor("instant_build", UnitCapAddressText), payload) :
             payload \in {<<Member("enable", <<"true">>)>>, DisablePatch}}

PatchCommands == {ParseCommand(line) : line \in PatchLines}

RequestOf == [command \in Commands \cup PatchCommands |-> BuildPluginRequest(command)]

----------------------------------------------------------------------------
(* State                                                                   *)

\* how many command lines the server receives in one run
MaxExchanges == 3

\* the target's memory when the daemon starts: unit cap 200, instant build
\* off, credits 3000, timer running
InitialMemory ==
    [a \in Addrs |-> CASE a \in 26..29 -> Int32Bytes(200)[a - 25]
                       [] a = 30 -> 0
                       [] a \in 31..34 -> Int32Bytes(3000)[a - 30]
                       [] OTHER -> 0]

NoExchange ==
    [commandId |-> "", featureId |-> "", route |-> "none", exchange |-> 0,
     request |-> BuildPluginRequest(ParseCommand(<<>>)),
     result |-> InvalidCommandResult, calls |-> <<>>, writes |-> <<>>,
     op |-> "", key |-> NoKey, before |-> <<>>, enabled |-> {}]

\* what the next exchange remembers of the one before it
Summary(exchange) ==
    [op |-> exchange.op, succeeded |-> exchange.result.succeeded, key |-> exchange.key,
     before |-> exchange.before]

\* the threads that may call BuildPatchPlugin::execute at the same time
Threads == {1, 2}

\* a thread that has not entered execute: [pc, enablePatch, bytes]
Outside == [pc |-> "outside", enablePatch |-> FALSE, bytes |-> <<>>]

\* the daemon has started: the plugins are constructed, the handler is installed
Started ==
    /\ mem = [p \in LivePids |-> InitialMemory]
    /\ restoreBytesByKey = EmptyMap
    /\ unitCapPatchEnabled_ = FALSE
    /\ instantBuildPatchEnabled_ = FALSE
    /\ unitCapValue_ = 0
    /\ lockEnabled_ = FALSE
    /\ lockedCreditsValue_ = 0
    /\ freezeTimerEnabled_ = FALSE
    /\ fogRevealEnabled_ = FALSE
    /\ aiEnabled_ = FALSE
    /\ firstOriginal = EmptyMap
    /\ last = NoExchange
    /\ prev = Summary(NoExchange)
    /\ running_ = FALSE
    /\ workerAt = "unstarted"
    /\ hostAt = "launch"
    /\ openPipes = 0
    /\ client = "none"
    /\ wakeLeft = 0
    /\ accepted = 0
    /\ responded = 0
    /\ closed = 0
    /\ workers = 0
    /\ restoreBytesMutex_ = 0
    /\ threadAt = [t \in Threads |-> Outside]

Init ==
    /\ Started
    /\ channelUp = TRUE
    /\ input = <<>>
    /\ output = <<>>

patchVars == <<restoreBytesByKey, unitCapPatchEnabled_, instantBuildPatchEnabled_,
               unitCapValue_, firstOriginal, restoreBytesMutex_, threadAt>>
economyVars == <<lockEnabled_, lockedCreditsValue_>>
toggleVars == <<freezeTimerEnabled_, fogRevealEnabled_, aiEnabled_>>

\* the bytes the target holds where a build-patch operation on `key` acts:
\* four for the unit cap, one for the instant-build switch
BytesAt(m, key) ==
    IF key = NoKey \/ key[1] \notin LivePids THEN <<>>
    ELSE [i \in 1..(IF key[2] = "set_unit_cap" THEN 4 ELSE 1) |->
             IF key[4] + i - 1 \in Addrs THEN m[key[1]][key[4] + i - 1] ELSE -1]

\* the history of one exchange
\* the restore keys whose most recent successful build-patch operation was an
\* enable, after one more operation
EnabledAfter(enabled, op, key, succeeded) ==
    IF succeeded /\ op = "enable" THEN enabled \cup {key}
    ELSE IF succeeded /\ op = "disable" THEN enabled \ {key}
    ELSE enabled

Exchanged(command, route, result, o) ==
    /\ last' = [commandId |-> command.commandId, featureId |-> command.featureId,
                route |-> route, exchange |-> last.exchange + 1,
                request |-> RequestOf[command],
                result |-> result, calls |-> o.calls, writes |-> o.writes,
                op |-> o.op, key |-> o.key, before |-> BytesAt(mem, o.key),
                enabled |-> EnabledAfter(last.enabled, o.op, o.key, result.succeeded)]
    /\ prev' = Summary(last)
    /\ UNCHANGED <<input, output, serverVars>>

NoEffect == [calls |-> <<>>, writes |-> <<>>, op |-> "", key |-> NoKey]

----------------------------------------------------------------------------
(* NamedPipeBridgeServer::handleRawCommand with the host's handler         *)
(* (HandleBridgeCommand) installed: one action per branch                  *)

\* commandId empty: answered by the transport, the handler is not invoked
ServeInvalidCommand(command) ==
    /\ last.exchange < MaxExchanges
    /\ IsMissingCommandId(command)
    /\ Exchanged(command, "transport", InvalidCommandResult, NoEffect)
    /\ UNCHANGED <<mem, patchVars, economyVars, toggleVars>>

ServeHealthForgetting(command) ==
    /\ last.exchange < MaxExchanges
    /\ ~IsMissingCommandId(command)
    /\ HandlerRoute(command) = "health"
    /\ Exchanged(command, "health", FinishResult(command, BuildHealthResult(command)), NoEffect)
    /\ restoreBytesByKey' = EmptyMap
    /\ firstOriginal' = EmptyMap
    /\ UNCHANGED <<mem, unitCapPatchEnabled_, instantBuildPatchEnabled_, unitCapValue_,
                   restoreBytesMutex_, threadAt, economyVars, toggleVars>>

ServeHealth(command) ==
    /\ last.exchange < MaxExchanges
    /\ ~IsMissingCommandId(command)
    /\ HandlerRoute(command) = "health"
    /\ Exchanged(command, "health", FinishResult(command, BuildHealthResult(command)), NoEffect)
    /\ UNCHANGED <<mem, patchVars, economyVars, toggleVars>>

ServeProbeCapabilities(command) ==
    /\ last.exchange < MaxExchanges
    /\ ~IsMissingCommandId(command)
    /\ HandlerRoute(command) = "probe"
    /\ Exchanged(command, "probe",
                 FinishResult(command,
                     BuildCapabilityProbeResult(command, EconomyCapabilitySnapshot,
                                                GlobalToggleCapabilitySnapshot,
                                                BuildPatchCapabilitySnapshot)), NoEffect)
    /\ UNCHANGED <<mem, patchVars, economyVars, toggleVars>>

ServeUnsupportedFeature(command) ==
    /\ last.exchange < MaxExchanges
    /\ ~IsMissingCommandId(command)
    /\ HandlerRoute(command) = "unsupported"
    /\ Exchanged(command, "unsupported",
                 FinishResult(command, BuildUnsupportedFeatureResult(command)), NoEffect)
    /\ UNCHANGED <<mem, patchVars, economyVars, toggleVars>>

\* BuildSetCreditsResult
ServeSetCredits(command, os) ==
    /\ last.exchange < MaxExchanges
    /\ ~IsMissingCommandId(command)
    /\ HandlerRoute(command) = "economy"
    /\ \E intValue \in {TryReadInt(command.payloadJson, "intValue")} :
          IF ~intValue.ok
          THEN /\ Exchanged(command, "host",
                            FinishResult(command, BuildMissingIntValueResult(command)), NoEffect)
               /\ UNCHANGED <<mem, economyVars>>
          ELSE \E pluginRequest \in {[RequestOf[command] EXCEPT !.intValue = intValue.value]} :
               \E o \in {EconomyExecute(pluginRequest, mem,
                                        [lockEnabled |-> lockEnabled_,
                                         lockedCreditsValue |-> lockedCreditsValue_], os)} :
                  /\ Exchanged(command, "economy",
                               FinishResult(command,
                                   BuildBridgeResultFromPlugin(command, pluginRequest, o.result)),
                               o)
                  /\ mem' = o.mem
                  /\ lockEnabled_' = o.members.lockEnabled
                  /\ lockedCreditsValue_' = o.members.lockedCreditsValue
    /\ UNCHANGED <<patchVars, toggleVars>>

\* BuildGlobalToggleResult
ServeGlobalToggle(command, os) ==
    /\ last.exchange < MaxExchanges
    /\ ~IsMissingCommandId(command)
    /\ HandlerRoute(command) = "global_toggle"
    /\ \E pluginRequest \in {RequestOf[command]} :
       \E o \in {GlobalToggleExecute(pluginRequest, mem,
                                     [freezeTimerEnabled |-> freezeTimerEnabled_,
                                      fogRevealEnabled |-> fogRevealEnabled_,
                                      aiEnabled |-> aiEnabled_], os)} :
          /\ Exchanged(command, "global_toggle",
                       FinishResult(command,
                           BuildBridgeResultFromPlugin(command, pluginRequest, o.result)), o)
          /\ mem' = o.mem
          /\ freezeTimerEnabled_' = o.members.freezeTimerEnabled
          /\ fogRevealEnabled_' = o.members.fogRevealEnabled
          /\ aiEnabled_' = o.members.aiEnabled
          /\ UNCHANGED <<patchVars, economyVars>>

\* BuildPatchResult
ServeBuildPatch(command, os) ==
    /\ last.exchange < MaxExchanges
    /\ ~IsMissingCommandId(command)
    /\ HandlerRoute(command) = "build_patch"
    /\ \E pluginRequest \in {RequestOf[command]} :
       \E o \in {BuildPatchExecute(pluginRequest, mem,
                                   [restore |-> restoreBytesByKey,
                                    unitCapPatchEnabled |-> unitCapPatchEnabled_,
                                    unitCapValue |-> unitCapValue_,
                                    instantBuildPatchEnabled |-> instantBuildPatchEnabled_], os)} :
          /\ Exchanged(command, "build_patch",
                       FinishResult(command,
                           BuildBridgeResultFromPlugin(command, pluginRequest, o.result)), o)
          /\ mem' = o.mem
          /\ restoreBytesByKey' = o.members.restore
          /\ unitCapPatchEnabled_' = o.members.unitCapPatchEnabled
          /\ unitCapValue_' = o.members.unitCapValue
          /\ instantBuildPatchEnabled_' = o.members.instantBuildPatchEnabled
          /\ firstOriginal' = [k \in DOMAIN o.members.restore |->
                                  IF k \in DOMAIN firstOriginal THEN firstOriginal[k]
                                  ELSE BytesAt(mem, k)]
          /\ UNCHANGED <<restoreBytesMutex_, threadAt, economyVars, toggleVars>>

Next ==
    \/ \E command \in Commands : ServeInvalidCommand(command)
    \/ \E command \in Commands : ServeHealth(command)
    \/ \E command \in Commands : ServeProbeCapabilities(command)
    \/ \E command \in Commands : ServeUnsupportedFeature(command)
    \/ \E command \in Commands, os \in OsOutcomes : ServeSetCredits(command, os)
    \/ \E command \in Commands, os \in OsOutcomes : ServeGlobalToggle(command, os)
    \/ \E command \in Commands, os \in OsOutcomes : ServeBuildPatch(command, os)

Spec == Init /\ [][Next]_vars

----------------------------------------------------------------------------
(* BuildCapabilityProbeResult on its own, over the snapshots that plugins  *)
(* may report                                                              *)

\* a default-constructed CapabilityState
CapabilityStateDefault ==
    [available |-> FALSE, state |-> "Unknown", reasonCode |-> "CAPABILITY_BACKEND_UNAVAILABLE"]

\* the snapshots that report some of `ids`, each as verified or as default
PluginSnapshots(ids) ==
    UNION {[S -> {CapabilityStateVerified, CapabilityStateDefault}] : S \in SUBSET ids}

InitProbe ==
    /\ Started
    /\ channelUp = TRUE
    /\ input \in {[economy |-> e, global |-> g, patch |-> p] :
                    e \in PluginSnapshots({"set_credits"}),
                    g \in PluginSnapshots({"freeze_timer", "toggle_ai"}),
                    p \in PluginSnapshots({"set_unit_cap", "set_credits", "spawn_unit_helper"})}
    /\ output = <<>>

ProbeSnapshots(command) ==
    /\ output = <<>>
    /\ ~IsMissingCommandId(command)
    /\ HandlerRoute(command) = "probe"
    /\ output' = BuildCapabilityProbeResult(command, input.economy, input.global, input.patch)
    /\ UNCHANGED <<mem, patchVars, economyVars, toggleVars, last, prev, input, serverVars>>

NextProbe == \E command \in Commands : ProbeSnapshots(command)

SpecProbe == InitProbe /\ [][NextProbe]_vars

----------------------------------------------------------------------------
(* HelperLuaPlugin::execute, which the host does not call: run on its own  *)
(* over the requests a caller of the plugin can build                      *)

IsSupportedHelperFeatureAny(featureId) == TRUE

IsSupportedHelperFeature(featureId) ==
    featureId \in {"spawn_unit_helper", "set_hero_state_helper", "toggle_roe_respawn_helper"}

\* diagnostics.emplace keeps an entry the caller already gave
BuildFailure(request, reasonCode, diagnostics) ==
    PluginResult(FALSE, reasonCode, "DENIED",
                 MapEmplace(MapEmplace(MapEmplace(diagnostics,
                     "featureId", request.featureId),
                     "helperHookId", request.helperHookId),
                     "helperEntryPoint", request.helperEntryPoint))

BuildSuccess(request) ==
    PluginResult(TRUE, "HELPER_EXECUTION_APPLIED", "HOOK_ONESHOT",
                 [k \in {"featureId", "helperHookId", "helperEntryPoint", "helperScript",
                         "helperInvocationSource", "helperVerifyState", "processId",
                         "intValue", "boolValue"}
                        \cup {f \in {"unitId", "entryMarker", "faction", "globalKey"} :
                                 request[f] # ""} |->
                     IF k = "helperInvocationSource" THEN "native_bridge"
                     ELSE IF k = "helperVerifyState" THEN "applied"
                     ELSE IF k \in {"processId", "intValue"} THEN ToString(request[k])
                     ELSE IF k = "boolValue" THEN (IF request.boolValue THEN "true" ELSE "false")
                     ELSE request[k]])

HasValueAlways(value) == TRUE

HasValue(value) == value # ""

\* [ok, failure]
ValidateRequest(request) ==
    IF ~IsSupportedHelperFeature(request.featureId)
    THEN [ok |-> FALSE,
          failure |-> BuildFailure(request, "CAPABILITY_REQUIRED_MISSING", EmptyMap)]
    ELSE IF request.processId <= 0
    THEN [ok |-> FALSE,
          failure |-> BuildFailure(request, "HELPER_BRIDGE_UNAVAILABLE",
                                   "processId" :> ToString(request.processId))]
    ELSE IF ~HasValue(request.helperHookId) \/ ~HasValue(request.helperEntryPoint)
    THEN [ok |-> FALSE,
          failure |-> BuildFailure(request, "HELPER_ENTRYPOINT_NOT_FOUND", EmptyMap)]
    ELSE IF /\ request.featureId = "spawn_unit_helper"
            /\ (\/ ~HasValue(request.unitId) \/ ~HasValue(request.entryMarker)
                \/ ~HasValue(request.faction))
    THEN [ok |-> FALSE,
          failure |-> BuildFailure(request, "HELPER_INVOCATION_FAILED", EmptyMap)]
    ELSE IF request.featureId = "set_hero_state_helper" /\ ~HasValue(request.globalKey)
    THEN [ok |-> FALSE,
          failure |-> BuildFailure(request, "HELPER_INVOCATION_FAILED", EmptyMap)]
    ELSE [ok |-> TRUE, failure |-> PluginResult(FALSE, "CAPABILITY_UNKNOWN", "none", EmptyMap)]

HelperLuaExecute(request) ==
    IF ~ValidateRequest(request).ok THEN ValidateRequest(request).failure
    ELSE BuildSuccess(request)

\* PluginRequest values: every helper id and one id of another plugin, no
\* process, process 0 and a live one, each text field empty or not
HelperRequests ==
    [featureId : {"spawn_unit_helper", "set_hero_state_helper", "toggle_roe_respawn_helper",
                  "set_credits"},
     processId : {-1, 0, 7},
     helperHookId : {"", "hook"}, helperEntryPoint : {"", "entry"},
     helperScript : {""},
     unitId : {"", "unit"}, entryMarker : {"", "marker"}, faction : {"", "rebel"},
     globalKey : {"", "key"},
     intValue : {0}, boolValue : {FALSE}]

InitHelper ==
    /\ Started
    /\ channelUp = TRUE
    /\ input \in HelperRequests
    /\ output = <<>>

ExecuteHelper ==
    /\ output = <<>>
    /\ output' = HelperLuaExecute(input)
    /\ UNCHANGED <<mem, patchVars, economyVars, toggleVars, last, prev, input, serverVars>>

NextHelper == ExecuteHelper

SpecHelper == InitHelper /\ [][NextHelper]_vars

----------------------------------------------------------------------------
(* The three memory operations of ProcessMutationHelpers.hpp called on     *)
(* their own, with every combination of operating-system outcomes.  The    *)
(* request sits in input, the operation's record in output.                *)

\* every combination of outcomes of the operating-system calls
OsCombinations ==
    [open : BOOLEAN, read : BOOLEAN, protect : BOOLEAN, write : BOOLEAN, restore : BOOLEAN]

\* process ids: negative, zero, the live process, a process that is not running
PrimitiveProcessIds == {0 - 1, 0, 7, 9}

\* addresses: null, mapped, mapped only in part for four bytes, unmapped
PrimitiveAddresses == {0, 26, 34, 40}

PrimitiveLengths == {0, 1, 4}

\* TryWriteValue<T> always passes sizeof(T) bytes, so a data write has no length 0
PrimitiveRequests ==
    {r \in [op : {"read", "data_write", "patch_write"}, processId : PrimitiveProcessIds,
            address : PrimitiveAddresses, length : PrimitiveLengths, os : OsCombinations] :
        r.op = "data_write" => r.length # 0}

PrimitiveBytes(length) == [i \in 1..length |-> 144]

InitPrimitive ==
    /\ Started
    /\ channelUp = TRUE
    /\ input \in PrimitiveRequests
    /\ output = <<>>

ExecuteRead ==
    /\ output = <<>>
    /\ input.op = "read"
    /\ output' = TryReadBytes(mem, input.processId, input.address, input.length, input.os)
    /\ UNCHANGED <<mem, patchVars, economyVars, toggleVars, last, prev, input, serverVars>>

ExecuteDataWrite ==
    /\ output = <<>>
    /\ input.op = "data_write"
    /\ \E r \in {TryWriteValueData(mem, input.processId, input.address,
                                   PrimitiveBytes(input.length), input.os)} :
          /\ output' = r
          /\ mem' = r.mem
    /\ UNCHANGED <<patchVars, economyVars, toggleVars, last, prev, input, serverVars>>

ExecutePatchWrite ==
    /\ output = <<>>
    /\ input.op = "patch_write"
    /\ \E r \in {TryWriteBytesPatchSafe(mem, input.processId, input.address,
                                        PrimitiveBytes(input.length), input.os)} :
          /\ output' = r
          /\ mem' = r.mem
    /\ UNCHANGED <<patchVars, economyVars, toggleVars, last, prev, input, serverVars>>

NextPrimitive == ExecuteRead \/ ExecuteDataWrite \/ ExecutePatchWrite

SpecPrimitive == InitPrimitive /\ [][NextPrimitive]_vars

----------------------------------------------------------------------------
(* TryParseAddress called on its own: the text sits in input; output holds *)
(* the result for the text as given and for the text behind a 0x and a 0X  *)
(* prefix.                                                                 *)

MaxAddressText == 4

AddressAtoms == {"0", "x", "X", "1", "A", "G"}

AddressTexts == UNION {[1..n -> AddressAtoms] : n \in 0..MaxAddressText}

InitParse ==
    /\ Started
    /\ channelUp = TRUE
    /\ input \in AddressTexts
    /\ output = <<>>

ParseAddress ==
    /\ output = <<>>
    /\ output' = [plain |-> TryParseAddress(input),
                  lower |-> TryParseAddress(<<"0", "x">> \o input),
                  upper |-> TryParseAddress(<<"0", "X">> \o input)]
    /\ UNCHANGED <<mem, patchVars, economyVars, toggleVars, last, prev, input, serverVars>>

NextParse == ParseAddress

SpecParse == InitParse /\ [][NextParse]_vars

----------------------------------------------------------------------------
(* The life cycle of NamedPipeBridgeServer under RunBridgeHost (the _WIN32 *)
(* build): the controlling thread starts the server, waits for the         *)
(* shutdown signal and stops it; the thread worker_ runs runLoop; clients  *)
(* connect to the pipe instance the worker has created.                    *)

\* how many clients connect in one run
MaxConnections == 2

\* how many connection attempts stop() makes before its deadline
WakeAttempts == 2

\* what a client sends: nothing, text that is no command, a health request,
\* an unknown feature, and a credits write
ServerLines ==
    {<<>>, <<"bogus">>,
     CommandLine(CommandIdC1, "health", NoPid, <<>>, <<>>),
     CommandLine(CommandIdC1, "bogus", NoPid, <<>>, <<>>),
     CommandLine(CommandIdC1, "set_credits", Pid7, Anchor("credits", CreditsAddressText),
                 <<Member("intValue", Decimal(1000)), Member("lockCredits", <<"true">>)>>)}

\* the BridgeCommand that handleRawCommand decodes from each of them
ServerCommands == [line \in ServerLines |-> ParseCommand(line)]

InitServer ==
    /\ Started
    /\ channelUp \in BOOLEAN
    /\ input = <<>>
    /\ output = <<>>

pluginVars == <<mem, patchVars, economyVars, toggleVars, last, prev>>

\* NamedPipeBridgeServer::start, called by RunBridgeHost: it returns true on
\* both of its paths, and the host goes on to report that it started
Start ==
    /\ hostAt = "launch"
    /\ IF running_
       THEN UNCHANGED <<running_, workerAt, workers>>
       ELSE /\ running_' = TRUE
            /\ workerAt' = "test"
            /\ workers' = workers + 1
    /\ hostAt' = "serving"
    /\ UNCHANGED <<pluginVars, input, output, channelUp, openPipes, client, wakeLeft,
                   accepted, responded, closed>>

\* the shutdown signal arrives and NamedPipeBridgeServer::stop clears the flag
StopBegin ==
    /\ hostAt = "serving"
    /\ running_' = FALSE
    /\ IF running_
       THEN /\ hostAt' = "waking"
            /\ wakeLeft' = WakeAttempts
       ELSE /\ hostAt' = "stopped"
            /\ UNCHANGED wakeLeft
    /\ UNCHANGED <<workers, pluginVars, input, output, workerAt, channelUp, openPipes, client,
                   accepted, responded, closed>>

\* stop(): CreateFileA finds a pipe instance waiting for a client; the handle is
\* closed at once and the loop is left
WakeClientConnects ==
    /\ hostAt = "waking"
    /\ wakeLeft > 0
    /\ workerAt = "accept" /\ client = "none"
    /\ client' = "loopback"
    /\ hostAt' = "joining"
    /\ UNCHANGED <<workers, pluginVars, input, output, running_, workerAt, channelUp, openPipes,
                   wakeLeft, accepted, responded, closed>>

\* stop(): CreateFileA finds no instance, or the instance is busy; sleep and retry
WakeClientFails ==
    /\ hostAt = "waking"
    /\ wakeLeft > 0
    /\ ~(workerAt = "accept" /\ client = "none")
    /\ wakeLeft' = wakeLeft - 1
    /\ UNCHANGED <<workers, pluginVars, input, output, running_, workerAt, hostAt, channelUp,
                   openPipes, client, accepted, responded, closed>>

\* stop(): the deadline has passed
WakeDeadline ==
    /\ hostAt = "waking"
    /\ wakeLeft = 0
    /\ hostAt' = "joining"
    /\ UNCHANGED <<workers, pluginVars, input, output, running_, workerAt, channelUp, openPipes,
                   client, wakeLeft, accepted, responded, closed>>

JoinWorkerWithoutWaiting ==
    /\ hostAt = "joining"
    /\ hostAt' = "stopped"
    /\ UNCHANGED <<workers, pluginVars, input, output, running_, workerAt, channelUp,
                   openPipes, client, wakeLeft, accepted, responded, closed>>

\* stop(): worker_.join() returns once runLoop has returned
JoinWorker ==
    /\ hostAt = "joining"
    /\ workerAt = "returned"
    /\ hostAt' = "stopped"
    /\ UNCHANGED <<workers, pluginVars, input, output, running_, workerAt, channelUp, openPipes,
                   client, wakeLeft, accepted, responded, closed>>

\* runLoop: while (running_.load())
TestRunning ==
    /\ workerAt = "test"
    /\ workerAt' = IF running_ THEN "create" ELSE "returned"
    /\ workers' = IF running_ THEN workers ELSE workers - 1
    /\ UNCHANGED <<pluginVars, input, output, running_, hostAt, channelUp, openPipes,
                   client, wakeLeft, accepted, responded, closed>>

\* TryCreateConnectedPipe: CreateNamedPipeA gives an instance
CreateBridgePipe ==
    /\ workerAt = "create"
    /\ channelUp
    /\ openPipes' = openPipes + 1
    /\ workerAt' = "accept"
    /\ UNCHANGED <<workers, pluginVars, input, output, running_, hostAt, channelUp, client,
                   wakeLeft, accepted, responded, closed>>

CreateBridgePipeFailsReturning ==
    /\ workerAt = "create"
    /\ ~channelUp
    /\ workerAt' = "returned"
    /\ workers' = workers - 1
    /\ UNCHANGED <<pluginVars, input, output, running_, hostAt, channelUp, openPipes,
                   client, wakeLeft, accepted, responded, closed>>

\* TryCreateConnectedPipe: CreateNamedPipeA fails; sleep kServerPollDelay and
\* go round the loop
CreateBridgePipeFails ==
    /\ workerAt = "create"
    /\ ~channelUp
    /\ workerAt' = "test"
    /\ UNCHANGED <<workers, pluginVars, input, output, running_, hostAt, channelUp, openPipes,
                   client, wakeLeft, accepted, responded, closed>>

\* environment: a client opens the pipe instance that waits for one
ClientConnects ==
    /\ workerAt = "accept"
    /\ client = "none"
    /\ accepted < MaxConnections
    /\ client' = "external"
    /\ UNCHANGED <<workers, pluginVars, input, output, running_, workerAt, hostAt, channelUp,
                   openPipes, wakeLeft, accepted, responded, closed>>

\* TryConnectClient: ConnectNamedPipe returns with a client connected
TryConnectClient ==
    /\ workerAt = "accept"
    /\ client # "none"
    /\ accepted' = accepted + 1
    /\ workerAt' = "read"
    /\ UNCHANGED <<workers, pluginVars, input, output, running_, hostAt, channelUp, openPipes,
                   client, wakeLeft, responded, closed>>

\* TryConnectClient: ConnectNamedPipe fails (the client has gone before the
\* call); TryCreateConnectedPipe closes the instance
TryConnectClientFails ==
    /\ workerAt = "accept"
    /\ client # "none"
    /\ openPipes' = openPipes - 1
    /\ client' = "none"
    /\ workerAt' = "test"
    /\ UNCHANGED <<workers, pluginVars, input, output, running_, hostAt, channelUp, wakeLeft,
                   accepted, responded, closed>>

\* ReadCommandLine: the line the client sent; nothing from the connection
\* stop() made, which is closed already
ReadCommandLine ==
    /\ workerAt = "read"
    /\ input' \in IF client = "loopback" THEN {<<>>} ELSE ServerLines
    /\ workerAt' = "respond"
    /\ UNCHANGED <<workers, pluginVars, output, running_, hostAt, channelUp, openPipes, client,
                   wakeLeft, accepted, responded, closed>>

\* WriteResponse(pipe, result); a failure of WriteFile is ignored
WriteResponse(result) ==
    /\ output' = result
    /\ responded' = responded + 1
    /\ workerAt' = "close"
    /\ UNCHANGED <<workers, input, last, prev, running_, hostAt, channelUp, openPipes, client,
                   wakeLeft, accepted, closed>>

RespondInvalidCommandSilently ==
    /\ workerAt = "respond"
    /\ IsMissingCommandId(ServerCommands[input])
    /\ workerAt' = "close"
    /\ UNCHANGED <<workers, pluginVars, input, output, running_, hostAt, channelUp, openPipes,
                   client, wakeLeft, accepted, responded, closed>>

\* handleRawCommand: no commandId
RespondInvalidCommand ==
    /\ workerAt = "respond"
    /\ IsMissingCommandId(ServerCommands[input])
    /\ WriteResponse(InvalidCommandResult)
    /\ UNCHANGED <<mem, patchVars, economyVars, toggleVars>>

\* handleRawCommand, HandleBridgeCommand: health
RespondHealth ==
    /\ workerAt = "respond"
    /\ \E command \in {ServerCommands[input]} :
          /\ ~IsMissingCommandId(command)
          /\ HandlerRoute(command) = "health"
          /\ WriteResponse(FinishResult(command, BuildHealthResult(command)))
    /\ UNCHANGED <<mem, patchVars, economyVars, toggleVars>>

\* handleRawCommand, HandleBridgeCommand: a feature that is not supported
RespondUnsupportedFeature ==
    /\ workerAt = "respond"
    /\ \E command \in {ServerCommands[input]} :
          /\ ~IsMissingCommandId(command)
          /\ HandlerRoute(command) = "unsupported"
          /\ WriteResponse(FinishResult(command, BuildUnsupportedFeatureResult(command)))
    /\ UNCHANGED <<mem, patchVars, economyVars, toggleVars>>

\* handleRawCommand, HandleBridgeCommand: set_credits
RespondSetCredits(os) ==
    /\ workerAt = "respond"
    /\ \E command \in {ServerCommands[input]} :
          /\ ~IsMissingCommandId(command)
          /\ HandlerRoute(command) = "economy"
          /\ \E intValue \in {TryReadInt(command.payloadJson, "intValue")} :
                IF ~intValue.ok
                THEN /\ WriteResponse(FinishResult(command, BuildMissingIntValueResult(command)))
                     /\ UNCHANGED <<mem, economyVars>>
                ELSE \E pluginRequest \in {[RequestOf[command] EXCEPT !.intValue = intValue.value]} :
                     \E o \in {EconomyExecute(pluginRequest, mem,
                                              [lockEnabled |-> lockEnabled_,
                                               lockedCreditsValue |-> lockedCreditsValue_], os)} :
                        /\ WriteResponse(FinishResult(command,
                               BuildBridgeResultFromPlugin(command, pluginRequest, o.result)))
                        /\ mem' = o.mem
                        /\ lockEnabled_' = o.members.lockEnabled
                        /\ lockedCreditsValue_' = o.members.lockedCreditsValue
    /\ UNCHANGED <<patchVars, toggleVars>>

CloseServerPipeLeaking ==
    /\ workerAt = "close"
    /\ closed' = closed + 1
    /\ client' = "none"
    /\ workerAt' = "test"
    /\ UNCHANGED <<workers, pluginVars, input, output, running_, hostAt, channelUp, openPipes,
                   wakeLeft, accepted, responded>>

\* CloseServerPipe: DisconnectNamedPipe and CloseHandle
CloseServerPipe ==
    /\ workerAt = "close"
    /\ openPipes' = openPipes - 1
    /\ closed' = closed + 1
    /\ client' = "none"
    /\ workerAt' = "test"
    /\ UNCHANGED <<workers, pluginVars, input, output, running_, hostAt, channelUp, wakeLeft,
                   accepted, responded>>

\* the steps of the thread worker_
WorkerStep ==
    \/ TestRunning
    \/ CreateBridgePipe
    \/ CreateBridgePipeFails
    \/ TryConnectClient
    \/ ReadCommandLine
    \/ RespondInvalidCommand
    \/ RespondHealth
    \/ RespondUnsupportedFeature
    \/ \E os \in OsOutcomes : RespondSetCredits(os)
    \/ CloseServerPipe

\* the steps of stop() after it has cleared the flag
StopStep == WakeClientConnects \/ WakeClientFails \/ WakeDeadline \/ JoinWorker

NextServer ==
    \/ Start
    \/ StopBegin
    \/ WakeClientConnects
    \/ WakeClientFails
    \/ WakeDeadline
    \/ JoinWorker
    \/ TestRunning
    \/ CreateBridgePipe
    \/ CreateBridgePipeFails
    \/ ClientConnects
    \/ TryConnectClient
    \/ TryConnectClientFails
    \/ ReadCommandLine
    \/ RespondInvalidCommand
    \/ RespondHealth
    \/ RespondUnsupportedFeature
    \/ \E os \in OsOutcomes : RespondSetCredits(os)
    \/ CloseServerPipe

SpecServer == InitServer /\ [][NextServer]_vars

\* both threads are scheduled fairly; no client is obliged to connect
SpecServerLive == SpecServer /\ WF_vars(WorkerStep) /\ WF_vars(StopStep)

----------------------------------------------------------------------------
(* The same server under a controlling thread that calls start() and       *)
(* stop() in any order, one call at a time                                 *)

StartAgainUnconditionally ==
    /\ hostAt \in {"serving", "stopped"}
    /\ accepted < MaxConnections
    /\ running_' = TRUE
    /\ workerAt' = "test"
    /\ workers' = workers + 1
    /\ hostAt' = "serving"
    /\ UNCHANGED <<pluginVars, input, output, channelUp, openPipes, client, wakeLeft,
                   accepted, responded, closed>>

\* NamedPipeBridgeServer::start, called after an earlier start() or stop() has
\* returned: running_.exchange(true), and a new thread only when it was false
\* (worker_ is not joinable then: it was joined by the stop() that cleared the
\* flag); the run ends once MaxConnections connections have been accepted
StartAgain ==
    /\ hostAt \in {"serving", "stopped"}
    /\ accepted < MaxConnections
    /\ running_' = TRUE
    /\ IF running_
       THEN UNCHANGED <<workerAt, workers>>
       ELSE /\ workerAt' = "test"
            /\ workers' = workers + 1
    /\ hostAt' = "serving"
    /\ UNCHANGED <<pluginVars, input, output, channelUp, openPipes, client, wakeLeft,
                   accepted, responded, closed>>

\* NamedPipeBridgeServer::stop, called before any start() or after an earlier
\* stop() has returned: running_.exchange(false), and the wake and join only
\* when the flag was set
StopAgain ==
    /\ hostAt \in {"launch", "stopped"}
    /\ running_' = FALSE
    /\ IF running_
       THEN /\ hostAt' = "waking"
            /\ wakeLeft' = WakeAttempts
       ELSE /\ hostAt' = "stopped"
            /\ UNCHANGED wakeLeft
    /\ UNCHANGED <<workers, pluginVars, input, output, workerAt, channelUp, openPipes,
                   client, accepted, responded, closed>>

NextLifecycle == NextServer \/ StartAgain \/ StopAgain

SpecLifecycle == InitServer /\ [][NextLifecycle]_vars

----------------------------------------------------------------------------
(* The diagnostics codec on its own (BridgeHostJson.cpp; BridgeHostMain.cpp *)
(* and NamedPipeBridgeServer.cpp carry the same functions): a diagnostics   *)
(* map, given as its entries in std::map's key order, is encoded by         *)
(* ToDiagnosticsJson and the text decoded by ParseFlatStringMapObject.      *)

RECURSIVE EscapeJson(_)
EscapeJson(value) ==
    IF value = <<>> THEN <<>>
    ELSE (CASE Head(value) = "\\" -> <<"\\", "\\">>
            [] Head(value) = Q -> <<"\\", Q>>
            [] Head(value) = "\n" -> <<"\\", "n">>
            [] Head(value) = "\r" -> <<"\\", "r">>
            [] Head(value) = "\t" -> <<"\\", "t">>
            [] OTHER -> <<Head(value)>>) \o EscapeJson(Tail(value))

\* the loop of ToDiagnosticsJson from entry i on
RECURSIVE DiagnosticsEntries(_, _)
DiagnosticsEntries(values, i) ==
    IF i > Len(values) THEN <<>>
    ELSE (IF i > 1 THEN <<",">> ELSE <<>>)
         \o <<Q>> \o EscapeJson(values[i].key) \o <<Q, ":", Q>>
         \o EscapeJson(values[i].value) \o <<Q>>
         \o DiagnosticsEntries(values, i + 1)

ToDiagnosticsJson(values) == <<"{">> \o DiagnosticsEntries(values, 1) \o <<"}">>

\* the longest key or value, and the most entries, of a diagnostics map
MaxDiagText == 1
MaxDiagEntries == 2

\* the characters of keys and values, with their char codes
DiagAtoms == {"\t", "\n", "\r", Q, "\\", "a"}

CharCode(a) == CASE a = "\t" -> 9 [] a = "\n" -> 10 [] a = "\r" -> 13
                 [] a = Q -> 34 [] a = "\\" -> 92 [] OTHER -> 97

DiagTexts == UNION {[1..n -> DiagAtoms] : n \in 0..MaxDiagText}

\* std::less<std::string>
RECURSIVE StringLess(_, _)
StringLess(a, b) ==
    IF b = <<>> THEN FALSE
    ELSE IF a = <<>> THEN TRUE
    ELSE IF Head(a) # Head(b) THEN CharCode(Head(a)) < CharCode(Head(b))
    ELSE StringLess(Tail(a), Tail(b))

\* the std::map<std::string, std::string> values: entries in ascending key order
DiagnosticsMaps ==
    {values \in UNION {[1..n -> [key : DiagTexts, value : DiagTexts]] : n \in 0..MaxDiagEntries} :
        \A i \in 1..(Len(values) - 1) : StringLess(values[i].key, values[i + 1].key)}

InitCodec ==
    /\ Started
    /\ channelUp = TRUE
    /\ input \in DiagnosticsMaps
    /\ output = <<>>

EncodeDecode ==
    /\ output = <<>>
    /\ \E json \in {ToDiagnosticsJson(input)} :
          output' = [json |-> json, decoded |-> ParseFlatStringMapObject(json)]
    /\ UNCHANGED <<mem, patchVars, economyVars, toggleVars, last, prev, input, serverVars>>

NextCodec == EncodeDecode

SpecCodec == InitCodec /\ [][NextCodec]_vars

----------------------------------------------------------------------------
(* Anchor resolution on its own: each plugin's FindAnchor applied to a     *)
(* request's featureId and anchors map.                                    *)

\* the names an anchors map may hold for a feature: the feature's candidates
\* and a name that is no candidate of any feature
AnchorNames(featureId) ==
    {"other"} \cup
    (CASE featureId = "set_unit_cap" -> {"unit_cap", "set_unit_cap"}
       [] featureId = "toggle_instant_build_patch" ->
            {"instant_build_patch_injection", "instant_build_patch", "instant_build",
             "toggle_instant_build_patch"}
       [] featureId = "set_credits" -> {"credits", "set_credits"}
       [] featureId = "freeze_timer" -> {"game_timer_freeze", "freeze_timer"}
       [] featureId = "toggle_fog_reveal" -> {"fog_reveal", "toggle_fog_reveal"}
       [] OTHER -> {"ai_enabled", "toggle_ai"})

AnchorValues == {<<>>, <<"1">>, <<"2">>}

AnchorRequests ==
    UNION {{[featureId |-> featureId, anchors |-> anchors] :
               anchors \in UNION {[names -> AnchorValues] : names \in SUBSET AnchorNames(featureId)}} :
           featureId \in {"set_unit_cap", "toggle_instant_build_patch", "set_credits",
                          "freeze_timer", "toggle_fog_reveal", "toggle_ai"}}

InitAnchor ==
    /\ Started
    /\ channelUp = TRUE
    /\ input \in AnchorRequests
    /\ output = <<>>

ResolveBuildPatchAnchor ==
    /\ output = <<>>
    /\ IsBuildPatchFeature(input.featureId)
    /\ output' = BuildPatchFindAnchor(input)
    /\ UNCHANGED <<mem, patchVars, economyVars, toggleVars, last, prev, input, serverVars>>

ResolveGlobalToggleAnchor ==
    /\ output = <<>>
    /\ IsGlobalToggleFeature(input.featureId)
    /\ output' = GlobalToggleFindAnchor(input)
    /\ UNCHANGED <<mem, patchVars, economyVars, toggleVars, last, prev, input, serverVars>>

ResolveCreditsAnchor ==
    /\ output = <<>>
    /\ input.featureId = "set_credits"
    /\ output' = FindCreditsAnchor(input)
    /\ UNCHANGED <<mem, patchVars, economyVars, toggleVars, last, prev, input, serverVars>>

NextAnchor == ResolveBuildPatchAnchor \/ ResolveGlobalToggleAnchor \/ ResolveCreditsAnchor

SpecAnchor == InitAnchor /\ [][NextAnchor]_vars

----------------------------------------------------------------------------
(* BuildPatchPlugin::execute over requests that differ in one part of the  *)
(* restore key and in their enable and boolValue flags                     *)

\* the requests the host builds from payloads that carry neither flag
NeitherFlagRequests ==
    {BuildPluginRequest(ParseCommand(
         CommandLine(CommandIdC1, "set_unit_cap", Pid7,
                     Anchor("unit_cap", UnitCapAddressText), payload))) :
        payload \in {NeitherFlag, NeitherFlagWithValue(100001)}}

NextPatch == \E command \in PatchCommands, os \in OsOutcomes : ServeBuildPatch(command, os)

SpecPatch == Init /\ [][NextPatch]_vars

----------------------------------------------------------------------------
(* BuildPatchPlugin::execute called by several threads at once, step by    *)
(* step from the restore key on: each thread serves one set_unit_cap       *)
(* request for process 7 and the anchor unit_cap at 0x1A                   *)

LockKey == <<7, "set_unit_cap", "unit_cap", 26>>
LockUnitCap == 5

InitLock ==
    /\ Started
    /\ channelUp = TRUE
    /\ input = <<>>
    /\ output = <<>>

otherVars == <<economyVars, toggleVars, last, prev, input, output, serverVars>>

At(t, pc) == [threadAt EXCEPT ![t].pc = pc]

\* execute is entered and reaches the restore key: !enablePatch goes to
\* TryReadRestoreBytes, enablePatch to TryReadBytes
EnterExecute(t, enablePatch) ==
    /\ threadAt[t].pc = "outside"
    /\ threadAt' = [threadAt EXCEPT ![t] = [pc |-> IF enablePatch THEN "read" ELSE "lookup.lock",
                                            enablePatch |-> enablePatch, bytes |-> <<>>]]
    /\ UNCHANGED <<mem, restoreBytesByKey, unitCapPatchEnabled_, instantBuildPatchEnabled_,
                   unitCapValue_, firstOriginal, restoreBytesMutex_, otherVars>>

\* process_mutation::TryReadBytes of the original bytes
CaptureOriginal(t, os) ==
    /\ threadAt[t].pc = "read"
    /\ \E read \in {TryReadBytes(mem, LockKey[1], LockKey[4], WriteLength(LockKey[2]), os)} :
          threadAt' = [threadAt EXCEPT ![t].bytes = read.bytes,
                                       ![t].pc = IF read.ok THEN "store.lock" ELSE "returned"]
    /\ UNCHANGED <<mem, restoreBytesByKey, unitCapPatchEnabled_, instantBuildPatchEnabled_,
                   unitCapValue_, firstOriginal, restoreBytesMutex_, otherVars>>

\* std::scoped_lock lock(restoreBytesMutex_) at the head of TryReadRestoreBytes,
\* StoreRestoreBytes and RemoveRestoreBytes: blocks until the mutex is free
AcquireMutex(t) ==
    /\ threadAt[t].pc \in {"lookup.lock", "store.lock", "remove.lock"}
    /\ restoreBytesMutex_ = 0
    /\ restoreBytesMutex_' = t
    /\ threadAt' = At(t, CASE threadAt[t].pc = "lookup.lock" -> "lookup.map"
                           [] threadAt[t].pc = "store.lock" -> "store.map"
                           [] OTHER -> "remove.map")
    /\ UNCHANGED <<mem, restoreBytesByKey, unitCapPatchEnabled_, instantBuildPatchEnabled_,
                   unitCapValue_, firstOriginal, otherVars>>

\* TryReadRestoreBytes: the lookup, and the lock released on return
LookupRecord(t) ==
    /\ threadAt[t].pc = "lookup.map"
    /\ \E restore \in {TryReadRestoreBytes(restoreBytesByKey, LockKey)} :
          threadAt' = [threadAt EXCEPT ![t].bytes = restore.bytes,
                                       ![t].pc = IF restore.ok THEN "write" ELSE "returned"]
    /\ restoreBytesMutex_' = 0
    /\ UNCHANGED <<mem, restoreBytesByKey, unitCapPatchEnabled_, instantBuildPatchEnabled_,
                   unitCapValue_, firstOriginal, otherVars>>

StoreRecordKeepingLock(t) ==
    /\ threadAt[t].pc = "store.map"
    /\ restoreBytesByKey' = StoreRestoreBytes(restoreBytesByKey, LockKey, threadAt[t].bytes)
    /\ threadAt' = At(t, "write")
    /\ UNCHANGED <<mem, unitCapPatchEnabled_, instantBuildPatchEnabled_, unitCapValue_,
                   firstOriginal, restoreBytesMutex_, otherVars>>

\* StoreRestoreBytes: the insert, and the lock released on return
StoreRecord(t) ==
    /\ threadAt[t].pc = "store.map"
    /\ restoreBytesByKey' = StoreRestoreBytes(restoreBytesByKey, LockKey, threadAt[t].bytes)
    /\ restoreBytesMutex_' = 0
    /\ threadAt' = At(t, "write")
    /\ UNCHANGED <<mem, unitCapPatchEnabled_, instantBuildPatchEnabled_, unitCapValue_,
                   firstOriginal, otherVars>>

\* TryWriteValue<std::int32_t> of the clamped value (enable), after which
\* ApplyUnitCapState and the return; TryWriteBytesPatchSafe of the restore
\* bytes (disable), after which RemoveRestoreBytes
WriteTarget(t, os) ==
    /\ threadAt[t].pc = "write"
    /\ \E write \in {TryWriteBytesPatchSafe(mem, LockKey[1], LockKey[4],
                                            IF threadAt[t].enablePatch
                                            THEN Int32Bytes(Clamp(LockUnitCap, kMinUnitCap,
                                                                  kMaxUnitCap))
                                            ELSE threadAt[t].bytes, os)} :
          /\ mem' = write.mem
          /\ threadAt' = At(t, IF write.ok /\ ~threadAt[t].enablePatch THEN "remove.lock"
                               ELSE "returned")
          /\ IF write.ok /\ threadAt[t].enablePatch
             THEN /\ unitCapPatchEnabled_' = TRUE
                  /\ unitCapValue_' = LockUnitCap
             ELSE UNCHANGED <<unitCapPatchEnabled_, unitCapValue_>>
    /\ UNCHANGED <<restoreBytesByKey, instantBuildPatchEnabled_, firstOriginal,
                   restoreBytesMutex_, otherVars>>

\* RemoveRestoreBytes: the erase, and the lock released on return; then
\* ApplyUnitCapState(false) and the return
RemoveRecord(t) ==
    /\ threadAt[t].pc = "remove.map"
    /\ restoreBytesByKey' = RemoveRestoreBytes(restoreBytesByKey, LockKey)
    /\ restoreBytesMutex_' = 0
    /\ unitCapPatchEnabled_' = FALSE
    /\ threadAt' = At(t, "returned")
    /\ UNCHANGED <<mem, instantBuildPatchEnabled_, unitCapValue_, firstOriginal, otherVars>>

NextLock ==
    \/ \E t \in Threads, enablePatch \in BOOLEAN : EnterExecute(t, enablePatch)
    \/ \E t \in Threads, os \in OsOutcomes : CaptureOriginal(t, os)
    \/ \E t \in Threads : AcquireMutex(t)
    \/ \E t \in Threads : LookupRecord(t)
    \/ \E t \in Threads : StoreRecord(t)
    \/ \E t \in Threads, os \in OsOutcomes : WriteTarget(t, os)
    \/ \E t \in Threads : RemoveRecord(t)

SpecLock == InitLock /\ [][NextLock]_vars

----------------------------------------------------------------------------
(* Properties                                                              *)

\* C1: a successful build-patch enable followed directly by a successful
\* disable for the same restore key writes back exactly the bytes that were
\* at the address before the enable, and leaves no Restore Record for the key.
C1_EnableDisableRoundTrip ==
    (/\ prev.op = "enable" /\ prev.succeeded
     /\ last.op = "disable" /\ last.result.succeeded
     /\ last.key = prev.key)
    => /\ last.writes = <<[processId |-> last.key[1], address |-> last.key[4],
                           bytes |-> prev.before]>>
       /\ BytesAt(mem, last.key) = prev.before
       /\ last.key \notin DOMAIN restoreBytesByKey

C1_Witness ==
    /\ prev.op = "enable" /\ prev.succeeded
    /\ last.op = "disable" /\ last.result.succeeded
    /\ last.key = prev.key
    /\ last.featureId = "set_unit_cap"
    /\ prev.before = Int32Bytes(200)

\* C2: a build-patch disable whose restore key has no Restore Record fails
\* with PATCH_RESTORE_STATE_MISSING, makes no operating-system call on the
\* target, writes nothing, and leaves the record table and the flags as they were.
C2_DisableWithoutRecord ==
    [][(/\ last'.exchange = last.exchange + 1
        /\ last'.route = "build_patch"
        /\ ~last'.request.enable /\ ~last'.request.boolValue
        /\ last'.key # NoKey
        /\ last'.key \notin DOMAIN restoreBytesByKey)
       => /\ ~last'.result.succeeded
          /\ last'.result.reasonCode = "PATCH_RESTORE_STATE_MISSING"
          /\ last'.calls = <<>>
          /\ last'.writes = <<>>
          /\ UNCHANGED <<mem, restoreBytesByKey, unitCapPatchEnabled_,
                         instantBuildPatchEnabled_, unitCapValue_>>]_vars

C2_Witness ==
    /\ last.route = "build_patch"
    /\ ~last.request.enable /\ ~last.request.boolValue
    /\ last.key # NoKey
    /\ last.result.reasonCode = "PATCH_RESTORE_STATE_MISSING"
    /\ restoreBytesByKey # EmptyMap

\* C3: a Restore Record holds the bytes that were at its address before the
\* first capture made since the record was last absent: a successful enable
\* that directly follows a successful enable for the same key leaves the
\* stored bytes as the first capture made them.
C3_RepeatedEnableKeepsFirstOriginal ==
    (/\ prev.op = "enable" /\ prev.succeeded
     /\ last.op = "enable" /\ last.result.succeeded
     /\ last.key = prev.key)
    => restoreBytesByKey[last.key] = firstOriginal[last.key]

\* C4: a Restore Record disappears exactly in a step that is a successful
\* disable for its key; a failed disable leaves it with the same bytes; a
\* disable that directly follows a successful disable for the same key fails
\* with PATCH_RESTORE_STATE_MISSING and writes nothing.
C4_RecordDeletedBySuccessfulDisable ==
    [][/\ \A k \in DOMAIN restoreBytesByKey :
             IF /\ last'.exchange = last.exchange + 1
                /\ last'.op = "disable" /\ last'.key = k /\ last'.result.succeeded
             THEN k \notin DOMAIN restoreBytesByKey'
             ELSE /\ k \in DOMAIN restoreBytesByKey'
                  /\ last'.op = "disable" => restoreBytesByKey'[k] = restoreBytesByKey[k]
       /\ (/\ last.op = "disable" /\ last.result.succeeded
           /\ last'.exchange = last.exchange + 1
           /\ last'.op = "disable" /\ last'.key = last.key)
          => /\ last'.result.reasonCode = "PATCH_RESTORE_STATE_MISSING"
             /\ last'.writes = <<>>]_vars

C4_Witness ==
    /\ prev.op = "disable" /\ prev.succeeded
    /\ last.op = "disable" /\ last.key = prev.key
    /\ last.result.reasonCode = "PATCH_RESTORE_STATE_MISSING"

\* C5: a set_unit_cap request with enable=true, a positive process id, a
\* resolvable anchor and an intValue below 1 or above 100000 fails with
\* SAFETY_MUTATION_BLOCKED, touches no target memory, creates no Restore
\* Record and leaves the stored unit-cap state as it was.
C5_UnitCapOutOfBoundsBlocked ==
    [][(/\ last'.exchange = last.exchange + 1
        /\ last'.route = "build_patch"
        /\ last'.request.featureId = "set_unit_cap"
        /\ last'.request.enable
        /\ last'.request.processId > 0
        /\ BuildPatchFindAnchor(last'.request).found
        /\ (last'.request.intValue < 1 \/ last'.request.intValue > 100000))
       => /\ ~last'.result.succeeded
          /\ last'.result.reasonCode = "SAFETY_MUTATION_BLOCKED"
          /\ last'.calls = <<>>
          /\ last'.writes = <<>>
          /\ UNCHANGED <<mem, restoreBytesByKey, unitCapPatchEnabled_, unitCapValue_>>]_vars

C5_Witness ==
    /\ last.route = "build_patch"
    /\ last.request.featureId = "set_unit_cap"
    /\ last.request.enable
    /\ last.request.processId > 0
    /\ BuildPatchFindAnchor(last.request).found
    /\ last.request.intValue = 100001
    /\ last.result.reasonCode = "SAFETY_MUTATION_BLOCKED"
    /\ unitCapPatchEnabled_

\* C6: a set_credits request with a negative intValue, whatever its anchors
\* and process id, reaches the economy plugin and fails there with
\* SAFETY_MUTATION_BLOCKED (not with the missing-anchor answer), with no
\* operating-system call, no write, and the lock flag and value as they were.
C6_NegativeCreditsBlocked ==
    [][(/\ last'.exchange = last.exchange + 1
        /\ last'.commandId # ""
        /\ last'.featureId = "set_credits"
        /\ last'.request.intValue < 0)
       => /\ last'.route = "economy"
          /\ ~last'.result.succeeded
          /\ last'.result.reasonCode = "SAFETY_MUTATION_BLOCKED"
          /\ "requiredField" \notin DOMAIN last'.result.diagnostics
          /\ last'.calls = <<>>
          /\ last'.writes = <<>>
          /\ UNCHANGED <<mem, lockEnabled_, lockedCreditsValue_>>]_vars

C6_Witness ==
    /\ last.route = "economy"
    /\ last.request.intValue = -1
    /\ last.request.anchors = EmptyMap
    /\ last.result.reasonCode = "SAFETY_MUTATION_BLOCKED"
    /\ lockEnabled_

\* C7: a line whose extracted commandId is empty is answered by the transport
\* with succeeded=false, CAPABILITY_BACKEND_UNAVAILABLE and hookState
\* invalid_command, whatever its featureId; no plugin runs: no
\* operating-system call is made and no plugin or target state changes.
C7_EmptyCommandIdRejected ==
    [][(/\ last'.exchange = last.exchange + 1
        /\ last'.commandId = "")
       => /\ last'.route = "transport"
          /\ ~last'.result.succeeded
          /\ last'.result.reasonCode = "CAPABILITY_BACKEND_UNAVAILABLE"
          /\ last'.result.hookState = "invalid_command"
          /\ last'.calls = <<>>
          /\ last'.writes = <<>>
          /\ UNCHANGED <<mem, restoreBytesByKey, unitCapPatchEnabled_,
                         instantBuildPatchEnabled_, unitCapValue_, lockEnabled_,
                         lockedCreditsValue_, freezeTimerEnabled_, fogRevealEnabled_,
                         aiEnabled_>>]_vars

C7_Witness ==
    /\ last.exchange > 0
    /\ last.commandId = ""
    /\ last.featureId = "health"
    /\ last.route = "transport"
    /\ prev.op = "enable" /\ prev.succeeded

\* C8: every health command that carries a commandId is answered with
\* succeeded=true and hookState RUNNING, whatever its process id, anchors and
\* payload and whatever state the earlier commands left behind.
C8_HealthAlwaysRunning ==
    (/\ last.exchange > 0
     /\ last.commandId # ""
     /\ last.featureId = "health")
    => /\ last.route = "health"
       /\ last.result.succeeded
       /\ last.result.hookState = "RUNNING"

C8_Witness ==
    /\ last.commandId # ""
    /\ last.featureId = "health"
    /\ last.request.processId = 0
    /\ last.result.succeeded
    /\ restoreBytesByKey # EmptyMap
    /\ ~prev.succeeded

\* C9: the probe's capability list names every declared feature id exactly
\* once and no id twice; a declared id that no plugin reports carries the
\* filler entry, and a reported id carries the entry of the last plugin that
\* reports it, never the filler.
C9_ProbeEnumeratesDeclaredFeatures ==
    output # <<>> =>
        /\ \A i, j \in DOMAIN output.capabilities :
              output.capabilities[i].featureId = output.capabilities[j].featureId => i = j
        /\ \A n \in DOMAIN kSupportedFeatures :
              \E i \in DOMAIN output.capabilities :
                 /\ output.capabilities[i].featureId = kSupportedFeatures[n]
                 /\ [available |-> output.capabilities[i].available,
                     state |-> output.capabilities[i].state,
                     reasonCode |-> output.capabilities[i].reasonCode]
                    = IF kSupportedFeatures[n] \in DOMAIN input.patch
                      THEN input.patch[kSupportedFeatures[n]]
                      ELSE IF kSupportedFeatures[n] \in DOMAIN input.global
                      THEN input.global[kSupportedFeatures[n]]
                      ELSE IF kSupportedFeatures[n] \in DOMAIN input.economy
                      THEN input.economy[kSupportedFeatures[n]]
                      ELSE [available |-> FALSE, state |-> "Unknown",
                            reasonCode |-> "CAPABILITY_REQUIRED_MISSING"]

C9_Witness ==
    /\ output # <<>>
    /\ "set_unit_cap" \notin DOMAIN input.patch
    /\ "set_credits" \in DOMAIN input.economy
    /\ "set_credits" \in DOMAIN input.patch
    /\ input.economy["set_credits"] # input.patch["set_credits"]
    /\ \E i \in DOMAIN output.capabilities :
          /\ output.capabilities[i].featureId = "set_unit_cap"
          /\ output.capabilities[i].state = "Unknown"

\* C10: a probe_capabilities response reports set_unit_cap and
\* toggle_instant_build_patch available only when the command carries a
\* positive process id and a matching non-empty anchor.
C10_ProbeReflectsAddressability ==
    last.route = "probe" =>
        \A i \in DOMAIN last.result.capabilities :
            (/\ last.result.capabilities[i].featureId
                    \in {"set_unit_cap", "toggle_instant_build_patch"}
             /\ last.result.capabilities[i].available)
            => /\ last.request.processId > 0
               /\ FindAnchorIn(last.request.anchors,
                               BuildPatchAnchorCandidates(
                                   last.result.capabilities[i].featureId), 1).found

\* C11: handling a health or a probe_capabilities command makes no
\* operating-system call on the target, writes nothing to it, and leaves the
\* Restore Record table and every plugin's stored flags and values as they were.
C11_HealthAndProbeNonMutating ==
    [][(/\ last'.exchange = last.exchange + 1
        /\ last'.commandId # ""
        /\ last'.featureId \in {"health", "probe_capabilities"})
       => /\ last'.calls = <<>>
          /\ last'.writes = <<>>
          /\ UNCHANGED <<mem, restoreBytesByKey, unitCapPatchEnabled_,
                         instantBuildPatchEnabled_, unitCapValue_, lockEnabled_,
                         lockedCreditsValue_, freezeTimerEnabled_, fogRevealEnabled_,
                         aiEnabled_>>]_vars

C11_Witness ==
    /\ last.commandId # ""
    /\ last.featureId \in {"health", "probe_capabilities"}
    /\ last.request.processId = 7
    /\ restoreBytesByKey # EmptyMap
    /\ unitCapPatchEnabled_
    /\ prev.op = "enable" /\ prev.succeeded

\* C12: a command whose featureId is not in the dispatch table (health,
\* probe_capabilities and the supported features) gets the unsupported-feature
\* Result from the dispatch itself: no plugin runs, no operating-system call is
\* made, and no memory, plugin state or Restore Record changes.
C12_UnsupportedFeatureTerminal ==
    [][(/\ last'.exchange = last.exchange + 1
        /\ last'.commandId # ""
        /\ last'.featureId \notin {"health", "probe_capabilities"}
        /\ \A n \in DOMAIN kSupportedFeatures : kSupportedFeatures[n] # last'.featureId)
       => /\ last'.route = "unsupported"
          /\ ~last'.result.succeeded
          /\ last'.result.reasonCode = "CAPABILITY_REQUIRED_MISSING"
          /\ last'.result.hookState = "DENIED"
          /\ last'.calls = <<>>
          /\ last'.writes = <<>>
          /\ UNCHANGED <<mem, restoreBytesByKey, unitCapPatchEnabled_,
                         instantBuildPatchEnabled_, unitCapValue_, lockEnabled_,
                         lockedCreditsValue_, freezeTimerEnabled_, fogRevealEnabled_,
                         aiEnabled_>>]_vars

C12_Witness ==
    /\ last.route = "unsupported"
    /\ last.featureId = "bogus"
    /\ last.result.reasonCode = "CAPABILITY_REQUIRED_MISSING"
    /\ restoreBytesByKey # EmptyMap

\* C13: no command for an id of the feature catalog is answered with the
\* unsupported-feature Result: each is served by the dispatch layer or a plugin.
C13_CatalogIdsDispatched ==
    (/\ last.exchange > 0
     /\ last.commandId # ""
     /\ last.featureId \in {"health", "probe_capabilities", "set_credits", "freeze_timer",
                            "toggle_fog_reveal", "toggle_ai", "set_unit_cap",
                            "toggle_instant_build_patch", "spawn_unit_helper",
                            "set_hero_state_helper", "toggle_roe_respawn_helper"})
    => last.route # "unsupported"

\* C14: a spawn_unit_helper request with a positive processId and non-empty
\* helperHookId and helperEntryPoint fails with HELPER_INVOCATION_FAILED when
\* unitId, entryMarker or faction is empty, and succeeds with
\* HELPER_EXECUTION_APPLIED when all three are non-empty.
C14_SpawnUnitHelperFields ==
    (/\ output # <<>>
     /\ input.featureId = "spawn_unit_helper"
     /\ input.processId > 0
     /\ input.helperHookId # "" /\ input.helperEntryPoint # "")
    => IF input.unitId = "" \/ input.entryMarker = "" \/ input.faction = ""
       THEN ~output.succeeded /\ output.reasonCode = "HELPER_INVOCATION_FAILED"
       ELSE output.succeeded /\ output.reasonCode = "HELPER_EXECUTION_APPLIED"

C14_Witness ==
    /\ output # <<>>
    /\ input.featureId = "spawn_unit_helper"
    /\ input.processId > 0
    /\ input.helperHookId # "" /\ input.helperEntryPoint # ""
    /\ input.unitId # "" /\ input.entryMarker # "" /\ input.faction = ""
    /\ output.reasonCode = "HELPER_INVOCATION_FAILED"

\* C15: the helper plugin answers with the first failing check of the order
\* feature id, process id, hook metadata, feature-specific field, and succeeds
\* exactly when none fails; toggle_roe_respawn_helper needs no payload field.
C15_HelperValidationOrder ==
    output # <<>> =>
        /\ output.reasonCode =
              IF input.featureId \notin {"spawn_unit_helper", "set_hero_state_helper",
                                         "toggle_roe_respawn_helper"}
              THEN "CAPABILITY_REQUIRED_MISSING"
              ELSE IF input.processId <= 0 THEN "HELPER_BRIDGE_UNAVAILABLE"
              ELSE IF input.helperHookId = "" \/ input.helperEntryPoint = ""
              THEN "HELPER_ENTRYPOINT_NOT_FOUND"
              ELSE IF \/ /\ input.featureId = "spawn_unit_helper"
                         /\ (input.unitId = "" \/ input.entryMarker = "" \/ input.faction = "")
                      \/ /\ input.featureId = "set_hero_state_helper"
                         /\ input.globalKey = ""
              THEN "HELPER_INVOCATION_FAILED"
              ELSE "HELPER_EXECUTION_APPLIED"
        /\ output.succeeded = (output.reasonCode = "HELPER_EXECUTION_APPLIED")

C15_Witness ==
    /\ output # <<>>
    /\ input.featureId = "set_hero_state_helper"
    /\ input.processId = 0
    /\ input.helperHookId = "" /\ input.globalKey = ""
    /\ output.reasonCode = "HELPER_BRIDGE_UNAVAILABLE"

\* C16: the reasonCode of every Result is one of the twelve codes of the
\* closed set.
C16_ReasonCodesClosed ==
    last.result.reasonCode \in
        {"CAPABILITY_PROBE_PASS", "CAPABILITY_REQUIRED_MISSING",
         "CAPABILITY_BACKEND_UNAVAILABLE", "CAPABILITY_ANCHOR_INVALID",
         "CAPABILITY_ANCHOR_UNREADABLE", "CAPABILITY_FEATURE_EXPERIMENTAL",
         "SAFETY_MUTATION_BLOCKED", "SAFETY_FAIL_CLOSED", "PATCH_RESTORE_STATE_MISSING",
         "HELPER_BRIDGE_UNAVAILABLE", "HELPER_ENTRYPOINT_NOT_FOUND",
         "HELPER_INVOCATION_FAILED"}

\* C17: a set_unit_cap enable with a positive processId and an out-of-range
\* intValue is answered with the missing-anchor error when no anchor resolves,
\* and with the invalid-anchor error when the anchor's address does not parse:
\* the anchor steps come before the value validation.
C17_AnchorStepsBeforeValueValidation ==
    (/\ last.route = "build_patch"
     /\ last.request.featureId = "set_unit_cap"
     /\ last.request.enable
     /\ last.request.processId > 0
     /\ (last.request.intValue < 1 \/ last.request.intValue > 100000))
    => /\ ~BuildPatchFindAnchor(last.request).found
          => /\ last.result.reasonCode = "CAPABILITY_REQUIRED_MISSING"
             /\ "requiredField" \in DOMAIN last.result.diagnostics
             /\ last.result.diagnostics["requiredField"] = "anchors"
       /\ (/\ BuildPatchFindAnchor(last.request).found
           /\ ~TryParseAddress(BuildPatchFindAnchor(last.request).value).ok)
          => /\ last.result.reasonCode = "SAFETY_MUTATION_BLOCKED"
             /\ "processMutationApplied" \in DOMAIN last.result.diagnostics

\* C18: a set_credits request with a non-negative intValue and processId <= 0
\* is rejected with the missing-process error (CAPABILITY_REQUIRED_MISSING
\* naming processId) before any memory operation is attempted.
C18_SetCreditsRequiresProcess ==
    (/\ last.route = "economy"
     /\ last.request.intValue >= 0
     /\ last.request.processId <= 0)
    => /\ ~last.result.succeeded
       /\ last.result.reasonCode = "CAPABILITY_REQUIRED_MISSING"
       /\ "requiredField" \in DOMAIN last.result.diagnostics
       /\ last.result.diagnostics["requiredField"] = "processId"
       /\ last.calls = <<>>

\* C19: a global-toggle request that fails leaves the plugin's three stored
\* enabled flags equal to their values before the request.
C19_FailedToggleKeepsFlags ==
    [][(/\ last'.exchange = last.exchange + 1
        /\ last'.route = "global_toggle"
        /\ ~last'.result.succeeded)
       => UNCHANGED <<freezeTimerEnabled_, fogRevealEnabled_, aiEnabled_>>]_vars

\* C20: a build-patch enable that fails leaves the Restore Record table and
\* the plugin's enabled flags and unit-cap value as they were before the request.
C20_FailedEnableKeepsState ==
    [][(/\ last'.exchange = last.exchange + 1
        /\ last'.route = "build_patch"
        /\ last'.op = "enable"
        /\ ~last'.result.succeeded)
       => UNCHANGED <<restoreBytesByKey, unitCapPatchEnabled_,
                      instantBuildPatchEnabled_, unitCapValue_>>]_vars

\* C21: in the protected write, once the change of page protection has
\* succeeded, the write and then a restore of the protection are both
\* attempted before the handle is closed and the operation returns, whether
\* the write succeeded or failed; when the change of protection fails, no
\* write is attempted.
C21_RestoreAlwaysAttempted ==
    (output # <<>> /\ input.op = "patch_write" /\ Len(output.calls) >= 2) =>
        IF Range(input.address, input.length) \subseteq Addrs /\ input.os.protect
        THEN /\ Len(output.calls) = 5
             /\ output.calls[3] = "WriteProcessMemory"
             /\ output.calls[4] = "VirtualProtectEx"
             /\ output.calls[5] = "CloseHandle"
        ELSE \A i \in 1..Len(output.calls) : output.calls[i] # "WriteProcessMemory"

\* a protected write whose write failed after the protection was changed
C21_Witness ==
    /\ output # <<>>
    /\ input.op = "patch_write"
    /\ input.os.protect /\ ~input.os.write
    /\ Len(output.calls) = 5
    /\ output.calls[4] = "VirtualProtectEx"
    /\ ~output.wrote

\* C22: a protected write that reached the write reports success exactly when
\* both the write and the restore of the protection succeeded, and its
\* restoreProtectOk diagnostic is the outcome of the restore, whatever the
\* outcome of the write.
C22_SuccessNeedsWriteAndRestore ==
    (output # <<>> /\ input.op = "patch_write" /\ Len(output.calls) = 5) =>
        /\ output.wrote <=> input.os.write
        /\ output.ok <=> (input.os.write /\ input.os.restore)
        /\ output.restoreProtectOk = (IF input.os.restore THEN "true" ELSE "false")
        /\ (mem # [p \in LivePids |-> InitialMemory]) => output.wrote

\* the bytes were written, the restore failed, and the operation reports failure
C22_Witness ==
    /\ output # <<>>
    /\ input.op = "patch_write"
    /\ output.wrote
    /\ mem # [p \in LivePids |-> InitialMemory]
    /\ ~input.os.restore
    /\ ~output.ok
    /\ output.restoreProtectOk = "false"

\* C23: a read, a data write or a protected write whose process id is not
\* positive or whose address is 0 (or, for the read and the protected write,
\* whose length is 0) fails without any operating-system call and without
\* touching memory.
C23_InvalidRequestsFailFast ==
    (/\ output # <<>>
     /\ \/ input.processId <= 0
        \/ input.address = 0
        \/ (input.op # "data_write" /\ input.length = 0)) =>
        /\ ~output.ok
        /\ output.calls = <<>>
        /\ mem = [p \in LivePids |-> InitialMemory]

\* a zero-length protected write on the live process at a mapped address
C23_Witness ==
    /\ output # <<>>
    /\ input.op = "patch_write"
    /\ input.processId = 7
    /\ input.address = 26
    /\ input.length = 0
    /\ input.os.open
    /\ output.calls = <<>>
    /\ ~output.ok

\* C24: every operation that obtained a process handle closes it exactly once,
\* as its last operating-system call, on every exit path; an operation that
\* obtained none closes none; no result carries a handle.
C24_HandlesClosed ==
    output # <<>> =>
        /\ (Len(output.calls) >= 1 /\ input.processId \in LivePids /\ input.os.open) =>
              /\ output.calls[1] = "OpenProcess"
              /\ output.calls[Len(output.calls)] = "CloseHandle"
              /\ Cardinality({i \in 1..Len(output.calls) : output.calls[i] = "CloseHandle"}) = 1
        /\ ~(Len(output.calls) >= 1 /\ input.processId \in LivePids /\ input.os.open) =>
              \A i \in 1..Len(output.calls) : output.calls[i] # "CloseHandle"
        /\ Cardinality({i \in 1..Len(output.calls) : output.calls[i] = "OpenProcess"}) <= 1
        /\ DOMAIN output \subseteq {"ok", "bytes", "mem", "wrote", "calls", "restoreProtectOk"}

\* a read whose ReadProcessMemory failed after the handle was obtained
C24_Witness ==
    /\ output # <<>>
    /\ input.op = "read"
    /\ input.os.open /\ ~input.os.read
    /\ ~output.ok
    /\ Len(output.calls) = 3
    /\ output.calls[3] = "CloseHandle"

\* C25: a text that does not itself begin with 0x or 0X parses to the same
\* result with and without one such prefix in front ("1A" and "0x1A" both
\* give 26); a non-empty run of hex digits is accepted; the empty text, the
\* bare prefix and any text with a character that is not a hex digit are
\* rejected; every rejection leaves the address 0.
C25_AddressParsing ==
    output # <<>> =>
        /\ ~(Len(input) >= 2 /\ input[1] = "0" /\ input[2] \in {"x", "X"}) =>
              /\ output.lower = output.plain
              /\ output.upper = output.plain
              /\ (\E i \in 1..Len(input) : input[i] \notin HexAtoms) => ~output.plain.ok
        /\ input = <<"1", "A">> => output.plain = [ok |-> TRUE, address |-> 26]
        /\ input = <<>> => (~output.plain.ok /\ ~output.lower.ok /\ ~output.upper.ok)
        /\ (input # <<>> /\ \A i \in 1..Len(input) : input[i] \in HexAtoms) =>
              (output.plain.ok /\ output.lower.ok /\ output.upper.ok)
        /\ ~output.plain.ok => output.plain.address = 0
        /\ ~output.lower.ok => output.lower.address = 0
        /\ ~output.upper.ok => output.upper.address = 0

\* "1G" is rejected with and without the prefix, the address left 0
C25_Witness ==
    /\ output # <<>>
    /\ input = <<"1", "G">>
    /\ output.plain = [ok |-> FALSE, address |-> 0]
    /\ output.lower = [ok |-> FALSE, address |-> 0]

\* C26: the transport is strictly sequential: never more than one pipe
\* instance is open on the server side, never more than one connection is
\* accepted and not yet closed, a command executes only for that one
\* connection, and the worker accepts a connection only when every earlier
\* one has had its response written and has been closed.
C26_OneConnectionAtATime ==
    /\ [](/\ openPipes <= 1
          /\ accepted <= closed + 1
          /\ workerAt = "respond" => (accepted = closed + 1 /\ responded = closed))
    /\ [][accepted' = accepted + 1 =>
             (responded = accepted /\ closed = accepted /\ openPipes = 1)]_vars

\* the second connection is being served after the first was closed
C26_Witness ==
    /\ workerAt = "respond"
    /\ accepted = 2
    /\ responded = 1
    /\ closed = 1
    /\ openPipes = 1

\* C27: every accepted connection has exactly one Result written to it and is
\* then closed, whatever was read from it: the counts of responses and closings
\* never fall out of step with the count of accepted connections, a connection
\* is closed only after its response, and under fair scheduling every accepted
\* connection is eventually answered and closed.
C27_EveryConnectionAnswered ==
    /\ [](closed <= responded /\ responded <= accepted /\ accepted <= closed + 1)
    /\ [][closed' = closed + 1 => (responded = accepted /\ closed + 1 = accepted)]_vars
    /\ \A n \in 1..(MaxConnections + 1) :
          (accepted = n) ~> (responded = n /\ closed = n)

\* an empty read was answered with the invalid-command Result and closed
C27_Witness ==
    /\ input = <<>>
    /\ output = InvalidCommandResult
    /\ accepted = 1
    /\ responded = 1
    /\ closed = 1

\* C28: the worker returns from its loop only from the test of the running
\* flag, with the flag cleared by stop(); a failure to create the pipe, a
\* failed accept, and the end of serving any input take it back to the test
\* with no pipe instance left open.
C28_WorkerLeavesOnlyOnStop ==
    /\ [](workerAt = "returned" => (~running_ /\ hostAt \in {"waking", "joining", "stopped"}))
    /\ [][(workerAt # "returned" /\ workerAt' = "returned") =>
             (workerAt = "test" /\ ~running_)]_vars
    /\ [][(/\ workerAt \in {"create", "accept", "close"}
           /\ workerAt' \notin {workerAt, "accept", "read"}) =>
             (workerAt' = "test" /\ openPipes' = 0)]_vars

\* after text that is no command, the worker is accepting again
C28_Witness ==
    /\ input = <<"bogus">>
    /\ closed = 1
    /\ workerAt = "accept"
    /\ running_
    /\ hostAt = "serving"

\* C29: once stop() has cleared the flag of a running server, under fair
\* scheduling the worker eventually returns from its loop and stop() returns
\* with the worker joined.
C29_StopTerminates ==
    (hostAt = "waking") ~> (hostAt = "stopped" /\ workerAt = "returned")

\* C30: when the pipe cannot be created, start() reports failure and the host
\* never gets to report that it started.
C30_ListenFailureSurfaced ==
    ~channelUp => hostAt = "launch"

\* C31: decoding the encoded diagnostics map gives exactly the key/value pairs
\* of the map.
C31_DiagnosticsRoundTrip ==
    output # <<>> =>
        /\ DOMAIN output.decoded = {Text(input[i].key) : i \in 1..Len(input)}
        /\ \A i \in 1..Len(input) : output.decoded[Text(input[i].key)] = input[i].value

\* C32: anchor resolution succeeds exactly when some candidate of the
\* feature's priority list is present with a non-empty value, and then yields
\* the first such candidate of the list with its value: empty and absent
\* candidates are passed over, an earlier non-empty candidate wins over a later
\* one, and a name outside the list is never used.
C32_FirstNonEmptyCandidateWins ==
    output # <<>> =>
        LET candidates ==
                CASE input.featureId = "set_unit_cap" -> <<"unit_cap", "set_unit_cap">>
                  [] input.featureId = "toggle_instant_build_patch" ->
                       <<"instant_build_patch_injection", "instant_build_patch",
                         "instant_build", "toggle_instant_build_patch">>
                  [] input.featureId = "set_credits" -> <<"credits", "set_credits">>
                  [] input.featureId = "freeze_timer" -> <<"game_timer_freeze", "freeze_timer">>
                  [] input.featureId = "toggle_fog_reveal" -> <<"fog_reveal", "toggle_fog_reveal">>
                  [] OTHER -> <<"ai_enabled", "toggle_ai">>
            usable == {i \in 1..Len(candidates) :
                          /\ candidates[i] \in DOMAIN input.anchors
                          /\ input.anchors[candidates[i]] # <<>>}
        IN /\ output.found <=> usable # {}
           /\ output.found =>
                 /\ output.key = candidates[Min(usable)]
                 /\ output.value = input.anchors[output.key]

\* an empty higher-priority anchor is passed over for a lower-priority one,
\* with a name outside the list present as well
C32_Witness ==
    /\ output # <<>>
    /\ input.featureId = "set_unit_cap"
    /\ DOMAIN input.anchors = {"unit_cap", "set_unit_cap", "other"}
    /\ input.anchors["unit_cap"] = <<>>
    /\ input.anchors["other"] = <<"1">>
    /\ input.anchors["set_unit_cap"] = <<"2">>
    /\ output = [found |-> TRUE, key |-> "set_unit_cap", value |-> <<"2">>]

C34_EnabledPatchHasRecord ==
    [][last'.exchange = last.exchange + 1 =>
       /\ last'.enabled \subseteq DOMAIN restoreBytesByKey'
       /\ last'.op = "enable" =>
             \A i \in DOMAIN last'.calls :
                last'.calls[i] = "WriteProcessMemory" =>
                   /\ last'.key \in DOMAIN restoreBytesByKey'
                   /\ \E j \in 1..(i - 1) : last'.calls[j] = "ReadProcessMemory"
       /\ (/\ last'.op = "enable"
           /\ "operation" \in DOMAIN last'.result.diagnostics
           /\ last'.result.diagnostics["operation"] = "capture_original")
          => /\ last'.writes = <<>>
             /\ mem' = mem
             /\ \A i \in DOMAIN last'.calls : last'.calls[i] # "WriteProcessMemory"
       /\ (last'.op = "disable" /\ last'.key \in last.enabled)
          => last'.result.reasonCode # "PATCH_RESTORE_STATE_MISSING"]_vars

\* a patch enabled two exchanges ago whose disable has failed twice at the
\* target, neither time for want of a Restore Record
C34_Witness ==
    /\ last.exchange = MaxExchanges
    /\ prev.op = "disable" /\ ~prev.succeeded
    /\ last.op = "disable" /\ ~last.result.succeeded
    /\ last.key = prev.key
    /\ last.key \in last.enabled
    /\ last.key \in DOMAIN restoreBytesByKey
    /\ last.result.reasonCode = "SAFETY_MUTATION_BLOCKED"

\* C35: a thread holds restoreBytesMutex_ only while it is inside the lookup,
\* the insert or the erase of the restore table, never while its read or
\* write of the target process is in progress; so while one thread is in a
\* target read or write, a thread waiting for the mutex is not waiting for it.
C35_MutexOnlyAroundMapOperation ==
    \A t \in Threads :
       /\ threadAt[t].pc \in {"read", "write"} => restoreBytesMutex_ # t
       /\ restoreBytesMutex_ = t => threadAt[t].pc \in {"lookup.map", "store.map", "remove.map"}
       /\ \A u \in Threads \ {t} :
             (/\ threadAt[t].pc \in {"read", "write"}
              /\ threadAt[u].pc \in {"lookup.lock", "store.lock", "remove.lock"})
             => restoreBytesMutex_ = 0

\* one thread is in its write of the target while the other holds the mutex
\* for its lookup
C35_Witness ==
    /\ threadAt[1].pc = "write"
    /\ threadAt[1].enablePatch
    /\ threadAt[2].pc = "lookup.map"
    /\ restoreBytesMutex_ = 2
    /\ LockKey \in DOMAIN restoreBytesByKey

\* C36: a build-patch Result whose diagnostics carry processMutationApplied =
\* "false" comes from a request that left the target bytes at the anchor
\* address as they were.
C36_NoMutationWhenReportedFalse ==
    (/\ last.route = "build_patch"
     /\ "processMutationApplied" \in DOMAIN last.result.diagnostics
     /\ last.result.diagnostics["processMutationApplied"] = "false")
    => /\ last.writes = <<>>
       /\ BytesAt(mem, last.key) = last.before

\* C37: a build-patch disable acts on the Restore Record under the key made
\* of its process id, its feature id, the anchor name it resolved and the
\* number its address text parses to, and on no other: every other record
\* stays as it was, and when there is no record under that key the disable
\* fails with PATCH_RESTORE_STATE_MISSING, writes nothing and leaves the
\* table unchanged. Address texts that parse to the same number give the
\* same key.
C37_RecordsIsolatedByFullKey ==
    [][(last'.exchange = last.exchange + 1 /\ last'.op = "disable") =>
       LET request == last'.request
           anchor == BuildPatchFindAnchor(request)
       IN /\ last'.key = <<request.processId, request.featureId, anchor.key,
                           TryParseAddress(anchor.value).address>>
          /\ \A k \in DOMAIN restoreBytesByKey \ {last'.key} :
                /\ k \in DOMAIN restoreBytesByKey'
                /\ restoreBytesByKey'[k] = restoreBytesByKey[k]
          /\ last'.key \notin DOMAIN restoreBytesByKey =>
                /\ last'.result.reasonCode = "PATCH_RESTORE_STATE_MISSING"
                /\ last'.writes = <<>>
                /\ UNCHANGED <<mem, restoreBytesByKey>>
          /\ last'.key \in DOMAIN restoreBytesByKey =>
                last'.result.reasonCode # "PATCH_RESTORE_STATE_MISSING"]_vars

\* the unit cap was enabled through the anchor unit_cap; a disable that names
\* the same address through the alias set_unit_cap finds no record and leaves
\* the enable's record in place
C37_Witness ==
    /\ prev.op = "enable" /\ prev.succeeded
    /\ prev.key = <<7, "set_unit_cap", "unit_cap", 26>>
    /\ last.op = "disable"
    /\ last.key = <<7, "set_unit_cap", "set_unit_cap", 26>>
    /\ last.result.reasonCode = "PATCH_RESTORE_STATE_MISSING"
    /\ prev.key \in DOMAIN restoreBytesByKey
    /\ restoreBytesByKey[prev.key] = prev.before

\* C38: a build-patch request that reaches the restore key takes the enable
\* branch exactly when its enable flag or its boolValue flag is true and the
\* disable branch when both are false, a flag absent from the payload being
\* false; a set_unit_cap request with both flags false reaches the disable
\* branch whatever its intValue, while one with either flag true and an
\* intValue outside [1,100000] is rejected before it; and a request with
\* neither flag whose key has no Restore Record fails with
\* PATCH_RESTORE_STATE_MISSING and writes nothing.
C38_EnableIffEitherFlag ==
    [][(last'.exchange = last.exchange + 1 /\ last'.route = "build_patch") =>
       LET request == last'.request
           anchor == BuildPatchFindAnchor(request)
           reachesKey == /\ request.processId > 0
                         /\ anchor.found
                         /\ TryParseAddress(anchor.value).ok
           outOfBounds == /\ request.featureId = "set_unit_cap"
                          /\ (request.intValue < 1 \/ request.intValue > 100000)
       IN /\ last'.op = "enable" <=>
                /\ reachesKey
                /\ request.enable \/ request.boolValue
                /\ ~outOfBounds
          /\ last'.op = "disable" <=>
                /\ reachesKey
                /\ ~request.enable /\ ~request.boolValue
          /\ (last'.op = "disable" /\ last'.key \notin DOMAIN restoreBytesByKey) =>
                /\ last'.result.reasonCode = "PATCH_RESTORE_STATE_MISSING"
                /\ last'.writes = <<>>
                /\ mem' = mem
          /\ \A absent \in NeitherFlagRequests : ~absent.enable /\ ~absent.boolValue]_vars

\* a unit cap enabled by boolValue alone and then restored by a request that
\* carries neither flag and an intValue above the bound
C38_Witness ==
    /\ prev.op = "enable" /\ prev.succeeded
    /\ last.op = "disable" /\ last.result.succeeded
    /\ last.key = prev.key
    /\ last.request.featureId = "set_unit_cap"
    /\ ~last.request.enable /\ ~last.request.boolValue
    /\ last.request.intValue = 100001
    /\ BytesAt(mem, last.key) = prev.before
    /\ ~unitCapPatchEnabled_

\* C39: while the controlling thread is past a stop() that has returned and
\* has not called start() again, no runLoop thread exists, no pipe instance
\* is open and no client is connected, and nothing is read, dispatched,
\* answered or written to target memory.
C39_NothingServedAfterStop ==
    [][/\ hostAt' = "stopped" =>
             /\ workers' = 0
             /\ workerAt' \in {"unstarted", "returned"}
             /\ openPipes' = 0
             /\ client' = "none"
             /\ ~running_'
       /\ (hostAt = "stopped" /\ hostAt' = "stopped") =>
             UNCHANGED <<pluginVars, input, output, client, accepted, responded, closed,
                         openPipes, workerAt>>]_vars

\* stop() has returned after a credits write was served, with a connection
\* still to come
C39_Witness ==
    /\ hostAt = "stopped"
    /\ workerAt = "returned"
    /\ responded >= 1
    /\ accepted < MaxConnections
    /\ lockedCreditsValue_ = 1000

\* C40: with start() and stop() called in any order by one thread, at most one
\* runLoop thread exists; running() is true exactly from a start() until the
\* next stop() clears the flag; a start() on a running server leaves the
\* worker count as it is; and a stop() on a server that is not running
\* changes nothing.
C40_AtMostOneWorker ==
    [][/\ workers' \in {0, 1}
       /\ running_' <=> hostAt' = "serving"
       /\ hostAt' = "serving" => workers' = 1
       /\ (hostAt = "serving" /\ hostAt' = "serving") => UNCHANGED <<workers, running_>>
       /\ (hostAt \in {"launch", "stopped"} /\ hostAt' = "stopped") =>
             UNCHANGED <<workers, running_, workerAt, wakeLeft, pluginVars, input, output,
                         openPipes, client, accepted, responded, closed>>]_vars

\* the server runs again, with one worker waiting for a client, after an
\* earlier stop() that woke its worker
C40_Witness ==
    /\ hostAt = "serving"
    /\ running_
    /\ workers = 1
    /\ workerAt = "accept"
    /\ wakeLeft > 0
    /\ accepted >= 1

====
